---- MODULE Spec2Model ----
(***************************************************************************)
(* Question paper moderation: the analysis engine (core/nlp_analyzer.py),  *)
(* the SQLite persistence layer (core/database.py) and the Flask handlers  *)
(* that drive them (backend/app.py).                                       *)
(*                                                                         *)
(* Question texts are strings; a character is a string of length 1.        *)
(* Python floats that the engine produces are kept exact as scaled         *)
(* integers: cognitive_load is held in tenths (10.0 is 100), the           *)
(* per-question quality_score in units (it only takes integral values).    *)
(***************************************************************************)
EXTENDS Integers, Sequences, FiniteSets, TLC

(***************************************************************************)
(* Python built-ins used by the engine                                     *)
(***************************************************************************)

\* s[i] of a string, 1-based; "" outside the string
Char(s, i) == IF i >= 1 /\ i <= Len(s) THEN SubSeq(s, i, i) ELSE ""

\* str.lower() on the characters it changes
LowerMap ==
  "A" :> "a" @@ "B" :> "b" @@ "C" :> "c" @@ "D" :> "d" @@ "E" :> "e" @@ "F" :> "f" @@
  "G" :> "g" @@ "H" :> "h" @@ "I" :> "i" @@ "J" :> "j" @@ "K" :> "k" @@ "L" :> "l" @@
  "M" :> "m" @@ "N" :> "n" @@ "O" :> "o" @@ "P" :> "p" @@ "Q" :> "q" @@ "R" :> "r" @@
  "S" :> "s" @@ "T" :> "t" @@ "U" :> "u" @@ "V" :> "v" @@ "W" :> "w" @@ "X" :> "x" @@
  "Y" :> "y" @@ "Z" :> "z"

\* str.lower() on one character
LowerChar(c) == IF c \in DOMAIN LowerMap THEN LowerMap[c] ELSE c

RECURSIVE lower(_)
\* str.lower()
lower(s) == IF s = "" THEN "" ELSE LowerChar(Head(s)) \o lower(Tail(s))

\* s[i:i+len(k)] == k
MatchAt(s, i, k) == i >= 1 /\ i + Len(k) - 1 <= Len(s) /\ SubSeq(s, i, i + Len(k) - 1) = k

\* k in s
Contains(s, k) ==
  LET n == Len(k)
  IN  \E i \in 1..(Len(s) - n + 1) : SubSeq(s, i, i + n - 1) = k

\* s.startswith(k)
startswith(s, k) == MatchAt(s, 1, k)

\* characters str.split() and the regex class \s treat as white space
IsSpace(c) == c \in {" ", "\t", "\n", "\r"}

\* the regex class \w
WordChars ==
  { "a", "b", "c", "d", "e", "f", "g", "h", "i", "j", "k", "l", "m", "n", "o", "p", "q",
    "r", "s", "t", "u", "v", "w", "x", "y", "z", "A", "B", "C", "D", "E", "F", "G", "H",
    "I", "J", "K", "L", "M", "N", "O", "P", "Q", "R", "S", "T", "U", "V", "W", "X", "Y",
    "Z", "0", "1", "2", "3", "4", "5", "6", "7", "8", "9", "_" }

IsWordChar(c) == c \in WordChars

\* the regex assertion \b holds just before position i of s
WordBoundary(s, i) == IsWordChar(Char(s, i - 1)) # IsWordChar(Char(s, i))

\* len(question.split(" ")) instead: one more than the number of blanks
WordCount_SplitOnBlank(s) == 1 + Cardinality({i \in 1..Len(s) : Char(s, i) = " "})

\* len(question.split()): the number of maximal runs of non-space characters
WordCount(s) ==
  Cardinality({i \in 1..Len(s) : ~IsSpace(Char(s, i)) /\ (i = 1 \/ IsSpace(Char(s, i - 1)))})

Min(a, b) == IF a <= b THEN a ELSE b
Max(a, b) == IF a >= b THEN a ELSE b

RECURSIVE SumSeq(_)
SumSeq(q) == IF q = << >> THEN 0 ELSE Head(q) + SumSeq(Tail(q))

(***************************************************************************)
(* NLPAnalyzer.__init__: the lexicon                                       *)
(***************************************************************************)

\* iteration order of the blooms_keywords dict (insertion order)
BloomsLevels ==
  << "Knowledge", "Comprehension", "Application", "Analysis", "Synthesis", "Evaluation" >>

\* iteration order of the difficulty dicts
DifficultyLevels == << "Easy", "Medium", "Hard" >>

blooms_keywords ==
  [ Knowledge |-> << "define", "list", "identify", "recall", "name", "label", "match",
                     "state", "describe", "relate", "outline", "who", "what", "when", "where" >>,
    Comprehension |-> << "explain", "describe", "discuss", "interpret", "summarize", "classify",
                         "paraphrase", "illustrate", "translate", "recognize", "express", "why", "how" >>,
    Application |-> << "apply", "solve", "use", "demonstrate", "calculate", "illustrate",
                       "show", "complete", "examine", "modify", "relate", "change", "discover" >>,
    Analysis |-> << "analyze", "compare", "contrast", "distinguish", "examine", "investigate",
                    "categorize", "differentiate", "separate", "infer", "arrange", "relationship" >>,
    Synthesis |-> << "create", "design", "compose", "construct", "formulate", "propose",
                     "develop", "integrate", "combine", "compile", "devise", "generate", "hypothesize" >>,
    Evaluation |-> << "evaluate", "judge", "criticize", "justify", "assess", "appraise",
                      "argue", "defend", "support", "value", "critique", "weigh", "recommend" >> ]

difficulty_keywords ==
  [ Easy |-> << "define", "list", "identify", "recall", "name", "what is", "who is",
                "label", "match", "choose", "find", "show", "spell", "tell" >>,
    Medium |-> << "explain", "describe", "compare", "discuss", "why", "how",
                  "summarize", "interpret", "classify", "estimate", "organize" >>,
    Hard |-> << "analyze", "evaluate", "justify", "assess", "critique", "hypothesize",
                "synthesize", "design", "compose", "create", "prove", "formulate" >> ]

ambiguity_patterns ==
  << "etc.", "and so on", "various", "several", "many", "some",
     "sometimes", "possibly", "maybe", "approximately", "about",
     "often", "usually", "generally", "mostly", "rarely" >>

\* names of the quality_issues detectors, in declaration order
quality_issue_names ==
  << "double negative", "leading question", "complex sentence", "vague pronoun" >>

complexity_keywords == << "analyze", "evaluate", "compare", "contrast", "synthesize" >>

(***************************************************************************)
(* Question classifier                                                     *)
(***************************************************************************)

RECURSIVE MaxKeyFrom(_, _, _, _)
\* the scan of Python's max(): a later key replaces the best one only when
\* its score is strictly greater
MaxKeyFrom(keys, scores, i, best) ==
  IF i > Len(keys) THEN best
  ELSE MaxKeyFrom(keys, scores, i + 1,
                  IF scores[keys[i]] > scores[best] THEN keys[i] ELSE best)

RECURSIVE MaxKeyFrom_LastWins(_, _, _, _)
\* a scan in which a later key also replaces the best one on a tie
MaxKeyFrom_LastWins(keys, scores, i, best) ==
  IF i > Len(keys) THEN best
  ELSE MaxKeyFrom_LastWins(keys, scores, i + 1,
                           IF scores[keys[i]] >= scores[best] THEN keys[i] ELSE best)

max_key_LastWins(keys, scores) == MaxKeyFrom_LastWins(keys, scores, 2, keys[1])

\* max(scores, key=lambda x: scores[x]) over a dict iterated in the order keys
max_key(keys, scores) == MaxKeyFrom(keys, scores, 2, keys[1])

\* max(scores.values())
max_value(keys, scores) == scores[max_key(keys, scores)]

\* a keyword counted wherever it occurs, inside a longer word included
BloomsHit_Substring(question_lower, keyword) == Contains(question_lower, keyword)

\* f" {keyword} " in f" {question_lower} " or question_lower.startswith(keyword)
BloomsHit(question_lower, keyword) ==
  \/ Contains(" " \o question_lower \o " ", " " \o keyword \o " ")
  \/ startswith(question_lower, keyword)

\* the scores dict of _classify_blooms_level after its loops
BloomsScores(question) ==
  LET question_lower == lower(question)
  IN  [level \in DOMAIN blooms_keywords |->
         Cardinality({k \in 1..Len(blooms_keywords[level]) :
                        BloomsHit(question_lower, blooms_keywords[level][k])})]

classify_blooms_level(question) ==
  LET scores == BloomsScores(question)
      max_score == max_value(BloomsLevels, scores)
  IN  IF max_score > 0 THEN max_key(BloomsLevels, scores) ELSE "Knowledge"

\* s.count(k) with overlapping occurrences counted: the positions of s where
\* k starts
Occurrences(s, k) == Cardinality({i \in 1..Len(s) : MatchAt(s, i, k)})

\* the keyword loops with scores[level] += question_lower.count(keyword)
DifficultyKeywordScores_Occurrences(question) ==
  LET question_lower == lower(question)
  IN  [level \in DOMAIN difficulty_keywords |->
         SumSeq([k \in 1..Len(difficulty_keywords[level]) |->
                   Occurrences(question_lower, difficulty_keywords[level][k])])]

\* the scores dict of _estimate_difficulty after the keyword loops
DifficultyKeywordScores(question) ==
  LET question_lower == lower(question)
  IN  [level \in DOMAIN difficulty_keywords |->
         Cardinality({k \in 1..Len(difficulty_keywords[level]) :
                        Contains(question_lower, difficulty_keywords[level][k])})]

\* the tier that the question's length adds one to
LengthTier(word_count) ==
  IF word_count > 20 THEN "Hard"
  ELSE IF word_count > 10 THEN "Medium"
  ELSE "Easy"

\* the scores dict of _estimate_difficulty when it returns
DifficultyScores(question) ==
  LET kw == DifficultyKeywordScores(question)
      bonus == LengthTier(WordCount(question))
  IN  [level \in DOMAIN kw |-> kw[level] + (IF level = bonus THEN 1 ELSE 0)]

\* the tie rule "the last maximal tier wins"
estimate_difficulty_LastWins(question) ==
  MaxKeyFrom_LastWins(DifficultyLevels, DifficultyScores(question), 2, DifficultyLevels[1])

estimate_difficulty(question) == max_key(DifficultyLevels, DifficultyScores(question))

\* returns (len(found_indicators) > 0, found_indicators)
detect_ambiguity(question) ==
  LET question_lower == lower(question)
      found_indicators == SelectSeq(ambiguity_patterns, LAMBDA ind : Contains(question_lower, ind))
  IN  [is_ambiguous |-> Len(found_indicators) > 0, indicators |-> found_indicators]

\* s[i:i+n] is n >= 1 characters that all satisfy the class
SpaceRun(s, i, n) == n >= 1 /\ \A j \in i..(i + n - 1) : IsSpace(Char(s, j))
WordRun(s, i, n) == n >= 1 /\ \A j \in i..(i + n - 1) : IsWordChar(Char(s, j))

\* re.search(r"\b(not\s+un|not\s+in|never\s+un|never\s+in)", s)
DoubleNegative(s) ==
  \E i \in 1..Len(s) :
    /\ WordBoundary(s, i)
    /\ \E neg \in {"not", "never"} :
         /\ MatchAt(s, i, neg)
         /\ \E n \in 1..Len(s) :
              /\ SpaceRun(s, i + Len(neg), n)
              /\ \E pre \in {"un", "in"} : MatchAt(s, i + Len(neg) + n, pre)

\* re.search(r"\b(wouldn't you|don't you think|isn't it true)", s)
LeadingQuestion(s) ==
  \E i \in 1..Len(s) :
    /\ WordBoundary(s, i)
    /\ \E ph \in {"wouldn't you", "don't you think", "isn't it true"} : MatchAt(s, i, ph)

\* re.search(r"[,;]{3,}", s)
ComplexSentence(s) ==
  \E i \in 1..(Len(s) - 2) : \A j \in i..(i + 2) : Char(s, j) \in {",", ";"}

\* the lookahead \s+\w+\s+(is|are|was|were) matches at position i
CopulaAhead(s, i) ==
  \E a \in 1..Len(s) :
    /\ SpaceRun(s, i, a)
    /\ \E b \in 1..Len(s) :
         /\ WordRun(s, i + a, b)
         /\ \E c \in 1..Len(s) :
              /\ SpaceRun(s, i + a + b, c)
              /\ \E v \in {"is", "are", "was", "were"} : MatchAt(s, i + a + b + c, v)

\* re.search(r"\b(it|they|them|this|that)\b(?!\s+\w+\s+(is|are|was|were))", s)
VaguePronoun(s) ==
  \E i \in 1..Len(s) :
    /\ WordBoundary(s, i)
    /\ \E p \in {"it", "they", "them", "this", "that"} :
         /\ MatchAt(s, i, p)
         /\ WordBoundary(s, i + Len(p))
         /\ ~CopulaAhead(s, i + Len(p))

\* re.search(pattern, question_lower) for the detector of that name
QualityPatternFound(issue_name, s) ==
  CASE issue_name = "double negative" -> DoubleNegative(s)
    [] issue_name = "leading question" -> LeadingQuestion(s)
    [] issue_name = "complex sentence" -> ComplexSentence(s)
    [] issue_name = "vague pronoun" -> VaguePronoun(s)

check_quality_issues(question) ==
  LET question_lower == lower(question)
  IN  SelectSeq(quality_issue_names, LAMBDA nm : QualityPatternFound(nm, question_lower))

\* the load without its cap at 10.0
estimate_cognitive_load_NoCap(question) ==
  WordCount(question)
    + 10 * Cardinality({k \in 1..Len(complexity_keywords) :
                          Contains(lower(question), complexity_keywords[k])})

\* min(word_count / 10.0 + complexity_factor, 10.0), in tenths
estimate_cognitive_load(question) ==
  LET word_count == WordCount(question)
      question_lower == lower(question)
      complexity_factor ==
        Cardinality({k \in 1..Len(complexity_keywords) :
                       Contains(question_lower, complexity_keywords[k])})
  IN  Min(word_count + 10 * complexity_factor, 100)

\* the short-question penalty with its threshold off by one
calculate_question_score_Short4(question, is_ambiguous, issues) ==
  LET s1 == IF is_ambiguous THEN 100 - 20 ELSE 100
      s2 == s1 - Len(issues) * 10
      word_count == WordCount(question)
      s3 == IF word_count < 4 THEN s2 - 15
            ELSE IF word_count > 40 THEN s2 - 10
            ELSE s2
  IN  Max(0, s3)

\* the quality issues deducted once, not once per issue
calculate_question_score_IssuesOnce(question, is_ambiguous, issues) ==
  LET s1 == IF is_ambiguous THEN 100 - 20 ELSE 100
      s2 == IF issues # << >> THEN s1 - 10 ELSE s1
      word_count == WordCount(question)
      s3 == IF word_count < 5 THEN s2 - 15
            ELSE IF word_count > 40 THEN s2 - 10
            ELSE s2
  IN  Max(0, s3)

calculate_question_score(question, is_ambiguous, issues) ==
  LET s1 == IF is_ambiguous THEN 100 - 20 ELSE 100
      s2 == s1 - Len(issues) * 10
      word_count == WordCount(question)
      s3 == IF word_count < 5 THEN s2 - 15
            ELSE IF word_count > 40 THEN s2 - 10
            ELSE s2
  IN  Max(0, s3)

(***************************************************************************)
(* Batch analyzer                                                          *)
(***************************************************************************)

\* the results dict before the loop of analyze_questions
EmptyResults(questions) ==
  [ total_questions |-> Len(questions),
    blooms_distribution |-> [level \in DOMAIN blooms_keywords |-> 0],
    difficulty_distribution |-> [level \in {"Easy", "Medium", "Hard"} |-> 0],
    ambiguous_questions |-> << >>,
    quality_issues |-> << >>,
    question_details |-> << >> ]

\* an iteration whose ambiguity flag is carried over from the questions
\* before it: a record that depends on more than its own text
AnalyzeOne_CarriesAmbiguity(results, i, question) ==
  LET blooms_level == classify_blooms_level(question)
      difficulty == estimate_difficulty(question)
      amb == detect_ambiguity(question)
      flagged == amb.is_ambiguous \/ results.ambiguous_questions # << >>
      issues == check_quality_issues(question)
  IN  [ results EXCEPT
          !.blooms_distribution[blooms_level] = @ + 1,
          !.difficulty_distribution[difficulty] = @ + 1,
          !.ambiguous_questions =
             IF flagged
             THEN Append(@, [question_number |-> i, question |-> question,
                             indicators |-> amb.indicators])
             ELSE @,
          !.quality_issues =
             IF issues # << >>
             THEN Append(@, [question_number |-> i, question |-> question, issues |-> issues])
             ELSE @,
          !.question_details =
             Append(@, [ number |-> i,
                         text |-> question,
                         blooms_level |-> blooms_level,
                         difficulty |-> difficulty,
                         ambiguous |-> flagged,
                         cognitive_load |-> estimate_cognitive_load(question),
                         word_count |-> WordCount(question),
                         quality_score |-> calculate_question_score(question, flagged, issues) ]) ]

\* an iteration that lists every question under quality_issues, with or
\* without an issue
AnalyzeOne_ListsEveryQuestion(results, i, question) ==
  LET blooms_level == classify_blooms_level(question)
      difficulty == estimate_difficulty(question)
      amb == detect_ambiguity(question)
      issues == check_quality_issues(question)
  IN  [ results EXCEPT
          !.blooms_distribution[blooms_level] = @ + 1,
          !.difficulty_distribution[difficulty] = @ + 1,
          !.ambiguous_questions =
             IF amb.is_ambiguous
             THEN Append(@, [question_number |-> i, question |-> question,
                             indicators |-> amb.indicators])
             ELSE @,
          !.quality_issues =
             Append(@, [question_number |-> i, question |-> question, issues |-> issues]),
          !.question_details =
             Append(@, [ number |-> i,
                         text |-> question,
                         blooms_level |-> blooms_level,
                         difficulty |-> difficulty,
                         ambiguous |-> amb.is_ambiguous,
                         cognitive_load |-> estimate_cognitive_load(question),
                         word_count |-> WordCount(question),
                         quality_score |->
                           calculate_question_score(question, amb.is_ambiguous, issues) ]) ]

\* one iteration of the loop of analyze_questions, for question number i
AnalyzeOne(results, i, question) ==
  LET blooms_level == classify_blooms_level(question)
      difficulty == estimate_difficulty(question)
      amb == detect_ambiguity(question)
      issues == check_quality_issues(question)
      cognitive_load == estimate_cognitive_load(question)
  IN  [ results EXCEPT
          !.blooms_distribution[blooms_level] = @ + 1,
          !.difficulty_distribution[difficulty] = @ + 1,
          !.ambiguous_questions =
             IF amb.is_ambiguous
             THEN Append(@, [question_number |-> i, question |-> question,
                             indicators |-> amb.indicators])
             ELSE @,
          !.quality_issues =
             IF issues # << >>
             THEN Append(@, [question_number |-> i, question |-> question, issues |-> issues])
             ELSE @,
          !.question_details =
             Append(@, [ number |-> i,
                         text |-> question,
                         blooms_level |-> blooms_level,
                         difficulty |-> difficulty,
                         ambiguous |-> amb.is_ambiguous,
                         cognitive_load |-> cognitive_load,
                         word_count |-> WordCount(question),
                         quality_score |->
                           calculate_question_score(question, amb.is_ambiguous, issues) ]) ]

RECURSIVE AnalyzeFrom_StopsEarly(_, _, _)
\* the loop leaving out the last question
AnalyzeFrom_StopsEarly(results, questions, i) ==
  IF i >= Len(questions) THEN results
  ELSE AnalyzeFrom_StopsEarly(AnalyzeOne(results, i, questions[i]), questions, i + 1)

RECURSIVE AnalyzeFrom(_, _, _)
AnalyzeFrom(results, questions, i) ==
  IF i > Len(questions) THEN results
  ELSE AnalyzeFrom(AnalyzeOne(results, i, questions[i]), questions, i + 1)

analyze_questions(questions) == AnalyzeFrom(EmptyResults(questions), questions, 1)

(***************************************************************************)
(* Exact arithmetic for the Python floats of the scorer: a number is a     *)
(* fraction [num, den] in lowest terms with den > 0.                       *)
(***************************************************************************)

RECURSIVE Gcd(_, _)
Gcd(a, b) == IF b = 0 THEN a ELSE Gcd(b, a % b)

Abs(a) == IF a < 0 THEN -a ELSE a

\* the fraction n/d, d # 0, in lowest terms
Frac(n, d) ==
  LET g == Gcd(Abs(n), Abs(d))
      sgn == IF d < 0 THEN -1 ELSE 1
  IN  [num |-> sgn * (n \div g), den |-> sgn * (d \div g)]

Int2F(n) == [num |-> n, den |-> 1]
FAdd(x, y) == Frac(x.num * y.den + y.num * x.den, x.den * y.den)
FSub(x, y) == Frac(x.num * y.den - y.num * x.den, x.den * y.den)
FMul(x, y) == Frac(x.num * y.num, x.den * y.den)
FLt(x, y) == x.num * y.den < y.num * x.den
FLe(x, y) == x.num * y.den <= y.num * x.den
FAbs(x) == [num |-> Abs(x.num), den |-> x.den]
FMax(x, y) == IF FLt(x, y) THEN y ELSE x
FMin(x, y) == IF FLt(y, x) THEN y ELSE x

\* count / total * 100, total > 0
Percentage(count, total) == Frac(count * 100, total)

(***************************************************************************)
(* Python floats as the scorer computes with them: IEEE 754 binary64,      *)
(* every operation rounded to the nearest value of 53 significant bits,    *)
(* a tie going to the even one.  A natural number of any size is the       *)
(* sequence of its digits in base 2^15, lowest digit first, without        *)
(* leading zeros; a float is [neg, m, e], standing for (-1)^neg * m * 2^e. *)
(***************************************************************************)

Limb == 32768

RECURSIVE BNorm(_)
\* the digits without leading zeros
BNorm(x) == IF x # << >> /\ x[Len(x)] = 0 THEN BNorm(SubSeq(x, 1, Len(x) - 1)) ELSE x

RECURSIVE BFromInt(_)
BFromInt(n) == IF n = 0 THEN << >> ELSE << n % Limb >> \o BFromInt(n \div Limb)

RECURSIVE BToInt(_)
BToInt(x) == IF x = << >> THEN 0 ELSE Head(x) + Limb * BToInt(Tail(x))

RECURSIVE BAddC(_, _, _)
BAddC(x, y, c) ==
  IF x = << >> /\ y = << >> THEN (IF c = 0 THEN << >> ELSE << c >>)
  ELSE LET s == (IF x = << >> THEN 0 ELSE Head(x)) + (IF y = << >> THEN 0 ELSE Head(y)) + c
       IN  << s % Limb >> \o BAddC(IF x = << >> THEN x ELSE Tail(x),
                                    IF y = << >> THEN y ELSE Tail(y), s \div Limb)

BAdd(x, y) == BAddC(x, y, 0)

RECURSIVE BSubB(_, _, _)
BSubB(x, y, b) ==
  IF x = << >> THEN << >>
  ELSE LET s == Head(x) - (IF y = << >> THEN 0 ELSE Head(y)) - b
       IN  << IF s < 0 THEN s + Limb ELSE s >>
             \o BSubB(Tail(x), IF y = << >> THEN y ELSE Tail(y), IF s < 0 THEN 1 ELSE 0)

\* x - y for x >= y
BSub(x, y) == BNorm(BSubB(x, y, 0))

RECURSIVE BCmpFrom(_, _, _)
BCmpFrom(x, y, i) ==
  IF i = 0 THEN 0
  ELSE IF x[i] < y[i] THEN -1
  ELSE IF x[i] > y[i] THEN 1
  ELSE BCmpFrom(x, y, i - 1)

\* -1, 0 or 1 as x is less than, equal to or greater than y
BCmp(x, y) ==
  IF Len(x) < Len(y) THEN -1
  ELSE IF Len(x) > Len(y) THEN 1
  ELSE BCmpFrom(x, y, Len(x))

RECURSIVE BMulSmall(_, _, _)
\* x * k + c for a digit k
BMulSmall(x, k, c) ==
  IF x = << >> THEN (IF c = 0 THEN << >> ELSE << c >>)
  ELSE LET p == Head(x) * k + c
       IN  << p % Limb >> \o BMulSmall(Tail(x), k, p \div Limb)

RECURSIVE BMul(_, _)
BMul(x, y) ==
  IF x = << >> \/ y = << >> THEN << >>
  ELSE BNorm(BAdd(BMulSmall(x, Head(y), 0), << 0 >> \o BMul(x, Tail(y))))

RECURSIVE BDivRem(_, _)
\* quotient and remainder of x by a digit d > 0
BDivRem(x, d) ==
  IF x = << >> THEN [q |-> << >>, r |-> 0]
  ELSE LET hi == BDivRem(Tail(x), d)
           cur == hi.r * Limb + Head(x)
       IN  [q |-> << cur \div d >> \o hi.q, r |-> cur % d]

RECURSIVE Pow2(_)
Pow2(k) == IF k = 0 THEN 1 ELSE 2 * Pow2(k - 1)

\* x * 2^k
BShl(x, k) ==
  IF x = << >> THEN x
  ELSE [i \in 1..(k \div 15) |-> 0] \o BNorm(BMulSmall(x, Pow2(k % 15), 0))

\* x \div 2^k
BShr(x, k) ==
  IF k \div 15 >= Len(x) THEN << >>
  ELSE BNorm(BDivRem(SubSeq(x, (k \div 15) + 1, Len(x)), Pow2(k % 15)).q)

RECURSIVE BitsOfDigit(_)
BitsOfDigit(n) == IF n = 0 THEN 0 ELSE 1 + BitsOfDigit(n \div 2)

\* the number of significant bits
BBits(x) == IF x = << >> THEN 0 ELSE 15 * (Len(x) - 1) + BitsOfDigit(x[Len(x)])

BOdd(x) == x # << >> /\ x[1] % 2 = 1

\* x \div 2^k rounded to nearest, a tie going to the even quotient
BShrNearestEven(x, k) ==
  IF k = 0 THEN x
  ELSE LET q == BShr(x, k)
           c == BCmp(BSub(x, BShl(q, k)), BShl(<< 1 >>, k - 1))
       IN  IF c > 0 \/ (c = 0 /\ BOdd(q)) THEN BAdd(q, << 1 >>) ELSE q

\* rounding of an exact result to 53 significant bits
DRound(x) ==
  LET n == BBits(x.m)
  IN  IF n <= 53 THEN x
      ELSE [neg |-> x.neg, m |-> BShrNearestEven(x.m, n - 53), e |-> x.e + (n - 53)]

\* float(n) for a small integer n
DFromInt(n) == [neg |-> n < 0, m |-> BFromInt(Abs(n)), e |-> 0]

DZero(x) == x.m = << >>

DNeg(x) == [x EXCEPT !.neg = ~x.neg]

DAbs(x) == [x EXCEPT !.neg = FALSE]

\* -1, 0 or 1 as |x| is less than, equal to or greater than |y|
DCmpAbs(x, y) ==
  IF DZero(x) \/ DZero(y) THEN (IF ~DZero(y) THEN -1 ELSE IF ~DZero(x) THEN 1 ELSE 0)
  ELSE LET e0 == Min(x.e, y.e)
       IN  BCmp(BShl(x.m, x.e - e0), BShl(y.m, y.e - e0))

\* -1, 0 or 1 as x is less than, equal to or greater than y
DCmp(x, y) ==
  IF DZero(x) /\ DZero(y) THEN 0
  ELSE IF DZero(x) THEN (IF y.neg THEN 1 ELSE -1)
  ELSE IF DZero(y) THEN (IF x.neg THEN -1 ELSE 1)
  ELSE IF x.neg # y.neg THEN (IF x.neg THEN -1 ELSE 1)
  ELSE IF x.neg THEN DCmpAbs(y, x) ELSE DCmpAbs(x, y)

DLt(x, y) == DCmp(x, y) < 0
DLe(x, y) == DCmp(x, y) <= 0

\* x + y
DAdd(x, y) ==
  IF DZero(x) THEN y
  ELSE IF DZero(y) THEN x
  ELSE LET e0 == Min(x.e, y.e)
           mx == BShl(x.m, x.e - e0)
           my == BShl(y.m, y.e - e0)
           c == BCmp(mx, my)
       IN  DRound(IF x.neg = y.neg THEN [neg |-> x.neg, m |-> BAdd(mx, my), e |-> e0]
                  ELSE IF c >= 0 THEN [neg |-> x.neg, m |-> BSub(mx, my), e |-> e0]
                  ELSE [neg |-> y.neg, m |-> BSub(my, mx), e |-> e0])

\* x - y
DSub(x, y) == DAdd(x, DNeg(y))

\* x * y
DMul(x, y) == DRound([neg |-> x.neg # y.neg, m |-> BMul(x.m, y.m), e |-> x.e + y.e])

\* a / b for integers a >= 0 and 0 < b < 2^15: 70 quotient bits and one
\* more that tells whether the division left a remainder
DDivInt(a, b) ==
  LET d == BDivRem(BShl(BFromInt(a), 70), b)
  IN  DRound([ neg |-> FALSE,
               m |-> BNorm(BAddC(BShl(BNorm(d.q), 1), << >>, IF d.r = 0 THEN 0 ELSE 1)),
               e |-> -71 ])

\* max(x, y) and min(x, y) of Python: the first argument unless the second
\* is strictly greater (strictly less)
DMax(x, y) == IF DLt(x, y) THEN y ELSE x
DMin(x, y) == IF DLt(y, x) THEN y ELSE x

RECURSIVE DMaxSeq(_)
DMaxSeq(q) == IF Len(q) = 1 THEN q[1] ELSE DMax(q[1], DMaxSeq(Tail(q)))
RECURSIVE DMinSeq(_)
DMinSeq(q) == IF Len(q) = 1 THEN q[1] ELSE DMin(q[1], DMinSeq(Tail(q)))

\* round(x, 2) in hundredths: the exact value of the float times 100,
\* rounded to the nearest integer, a tie going to the even one
DHundredths(x) ==
  LET n == BMulSmall(x.m, 100, 0)
      h == IF x.e >= 0 THEN BToInt(BShl(n, x.e)) ELSE BToInt(BShrNearestEven(n, -x.e))
  IN  IF x.neg THEN -h ELSE h

\* the exact value of a float that is not negative, times 10, rounded to the
\* nearest integer, a tie going to the even one: the digits of f"{x:.1f}"
DTenths(x) ==
  LET n == BMulSmall(x.m, 10, 0)
  IN  IF x.e >= 0 THEN BToInt(BShl(n, x.e)) ELSE BToInt(BShrNearestEven(n, -x.e))

\* f"{x:.1f}" of a float that is not negative
Format1f(x) ==
  LET tenths == DTenths(x)
  IN  ToString(tenths \div 10) \o "." \o ToString(tenths % 10)

\* repr of the float with the exact value h / 100, h not negative
ReprOfHundredths(h) ==
  ToString(h \div 100) \o "."
    \o (IF h % 10 = 0 THEN ToString((h % 100) \div 10)
        ELSE ToString((h % 100) \div 10) \o ToString(h % 10))

RECURSIVE Spaces(_)
\* " " * n
Spaces(n) == IF n <= 0 THEN "" ELSE " " \o Spaces(n - 1)

\* f"{s:<width}" and f"{s:>width}"
ljust(s, width) == s \o Spaces(width - Len(s))
rjust(s, width) == Spaces(width - Len(s)) \o s

RECURSIVE JoinWith(_, _)
\* sep.join(parts)
JoinWith(sep, parts) ==
  IF parts = << >> THEN ""
  ELSE IF Len(parts) = 1 THEN parts[1]
  ELSE parts[1] \o sep \o JoinWith(sep, Tail(parts))

(***************************************************************************)
(* Suggestion generator                                                    *)
(***************************************************************************)

\* count / total * 100
FloatPercentage(count, total) == DMul(DDivInt(count, total), DFromInt(100))

\* (count / total * 100) if total > 0 else 0
GuardedFloatPercentage(count, total) ==
  IF total > 0 THEN FloatPercentage(count, total) ELSE DFromInt(0)

\* the messages of the suggestions about a level or a tier
MissingLevelMessage(level) ==
  "No questions at '" \o level \o "' level. Add questions requiring "
    \o lower(level) \o " skills."

LowRepresentationMessage(level, count, total) ==
  "Only " \o Format1f(GuardedFloatPercentage(count, total)) \o "% questions at '"
    \o level \o "' level. Consider adding more."

DifficultyImbalanceMessage(level, count, total) ==
  "Only " \o Format1f(GuardedFloatPercentage(count, total)) \o "% of questions are '"
    \o level \o "' difficulty. Add more " \o lower(level) \o " questions."

\* the messages of the suggestions about a question
AmbiguityMessage(item) ==
  "Question " \o ToString(item.question_number) \o " contains ambiguous terms: "
    \o JoinWith(", ", item.indicators) \o ". Rephrase for clarity."

QualityIssueMessage(item) ==
  "Question " \o ToString(item.question_number) \o " has quality issues: "
    \o JoinWith(", ", item.issues) \o ". Please review."

\* (count / total * 100) if total > 0 else 0
GuardedPercentage(count, total) == IF total > 0 THEN Percentage(count, total) ELSE Int2F(0)

\* the first loop with "percentage <= 10" in place of "percentage < 10"
BloomsSuggestions_AtMost10(analysis) ==
  LET total == analysis.total_questions
      count(level) == analysis.blooms_distribution[level]
      flagged == SelectSeq(BloomsLevels,
                           LAMBDA level : \/ count(level) = 0
                                          \/ FLe(GuardedPercentage(count(level), total), Int2F(10)))
  IN  [ i \in 1..Len(flagged) |->
          IF count(flagged[i]) = 0
          THEN [type |-> "missing_level", priority |-> "high",
                category |-> "blooms_taxonomy",
                message |-> MissingLevelMessage(flagged[i]), level |-> flagged[i]]
          ELSE [type |-> "low_representation", priority |-> "medium",
                category |-> "blooms_taxonomy",
                message |-> LowRepresentationMessage(flagged[i], count(flagged[i]), total),
                level |-> flagged[i]] ]

\* the first loop of generate_suggestions, over blooms_distribution.items()
BloomsSuggestions(analysis) ==
  LET total == analysis.total_questions
      count(level) == analysis.blooms_distribution[level]
      flagged == SelectSeq(BloomsLevels,
                           LAMBDA level : \/ count(level) = 0
                                          \/ FLt(GuardedPercentage(count(level), total), Int2F(10)))
  IN  [ i \in 1..Len(flagged) |->
          IF count(flagged[i]) = 0
          THEN [type |-> "missing_level", priority |-> "high",
                category |-> "blooms_taxonomy",
                message |-> MissingLevelMessage(flagged[i]), level |-> flagged[i]]
          ELSE [type |-> "low_representation", priority |-> "medium",
                category |-> "blooms_taxonomy",
                message |-> LowRepresentationMessage(flagged[i], count(flagged[i]), total),
                level |-> flagged[i]] ]

\* the second loop, over difficulty_distribution.items()
DifficultySuggestions(analysis) ==
  LET total == analysis.total_questions
      flagged == SelectSeq(DifficultyLevels,
                           LAMBDA level :
                             FLt(GuardedPercentage(analysis.difficulty_distribution[level], total),
                                 Int2F(20)))
  IN  [ i \in 1..Len(flagged) |->
          [type |-> "difficulty_imbalance", priority |-> "medium",
           category |-> "difficulty",
           message |-> DifficultyImbalanceMessage(
                         flagged[i], analysis.difficulty_distribution[flagged[i]], total),
           level |-> flagged[i]] ]

\* the third loop, over analysis.get('ambiguous_questions', [])
AmbiguitySuggestions(analysis) ==
  [ i \in 1..Len(analysis.ambiguous_questions) |->
      [type |-> "ambiguity", priority |-> "high", category |-> "quality",
       message |-> AmbiguityMessage(analysis.ambiguous_questions[i]),
       indicators |-> analysis.ambiguous_questions[i].indicators,
       question_number |-> analysis.ambiguous_questions[i].question_number] ]

\* the fourth loop, over analysis.get('quality_issues', [])
QualitySuggestions(analysis) ==
  [ i \in 1..Len(analysis.quality_issues) |->
      [type |-> "quality_issue", priority |-> "high", category |-> "quality",
       message |-> QualityIssueMessage(analysis.quality_issues[i]),
       issues |-> analysis.quality_issues[i].issues,
       question_number |-> analysis.quality_issues[i].question_number] ]

\* a generator that reports a question once: no quality_issue suggestion for
\* a question that already has an ambiguity suggestion
generate_suggestions_Deduplicated(analysis) ==
  BloomsSuggestions(analysis) \o DifficultySuggestions(analysis)
    \o AmbiguitySuggestions(analysis)
    \o SelectSeq(QualitySuggestions(analysis),
                 LAMBDA s : \A k \in 1..Len(analysis.ambiguous_questions) :
                              analysis.ambiguous_questions[k].question_number # s.question_number)

generate_suggestions(analysis) ==
  BloomsSuggestions(analysis) \o DifficultySuggestions(analysis)
    \o AmbiguitySuggestions(analysis) \o QualitySuggestions(analysis)

(***************************************************************************)
(* Scorer.  A function that raises returns [exception |-> name].           *)
(***************************************************************************)

Raised(x) == "exception" \in DOMAIN x

RECURSIVE FMaxSeq(_)
FMaxSeq(q) == IF Len(q) = 1 THEN q[1] ELSE FMax(q[1], FMaxSeq(Tail(q)))
RECURSIVE FMinSeq(_)
FMinSeq(q) == IF Len(q) = 1 THEN q[1] ELSE FMin(q[1], FMinSeq(Tail(q)))

\* the float literals 0.4, 0.3 and 0.5
Float04 == DDivInt(4, 10)
Float03 == DDivInt(3, 10)
Float05 == DDivInt(1, 2)

\* the balance taken over the levels that have a question only
calculate_blooms_score_PresentLevelsOnly(distribution, total) ==
  LET represented_levels == Cardinality({level \in DOMAIN distribution : distribution[level] > 0})
      representation_score == DMul(DDivInt(represented_levels, 6), DFromInt(50))
      present == SelectSeq(BloomsLevels, LAMBDA level : distribution[level] > 0)
      percentages == [i \in 1..Len(present) |-> FloatPercentage(distribution[present[i]], total)]
      balance_score == DSub(DFromInt(50), DSub(DMaxSeq(percentages), DMinSeq(percentages)))
  IN  IF total = 0 THEN [exception |-> "ZeroDivisionError"]
      ELSE DMax(DFromInt(0), DAdd(representation_score, balance_score))

\* count / total in line 333 is not guarded: it raises when total is 0
calculate_blooms_score(distribution, total) ==
  LET represented_levels == Cardinality({level \in DOMAIN distribution : distribution[level] > 0})
      representation_score == DMul(DDivInt(represented_levels, 6), DFromInt(50))
      percentages ==
        [i \in 1..Len(BloomsLevels) |-> FloatPercentage(distribution[BloomsLevels[i]], total)]
      balance_score == DSub(DFromInt(50), DSub(DMaxSeq(percentages), DMinSeq(percentages)))
  IN  IF total = 0 THEN [exception |-> "ZeroDivisionError"]
      ELSE DMax(DFromInt(0), DAdd(representation_score, balance_score))

\* the targets 30, 30, 40
ideal_percentages_HardHeavy == [Easy |-> 30, Medium |-> 30, Hard |-> 40]

ideal_percentages == [Easy |-> 30, Medium |-> 40, Hard |-> 30]

RECURSIVE DifficultyDeduct(_, _, _, _)
\* the loop of _calculate_difficulty_score from the i-th tier on
DifficultyDeduct(distribution, total, i, score) ==
  IF i > Len(DifficultyLevels) THEN score
  ELSE LET level == DifficultyLevels[i]
           actual_pct == GuardedFloatPercentage(distribution[level], total)
           deviation == DAbs(DSub(actual_pct, DFromInt(ideal_percentages[level])))
       IN  DifficultyDeduct(distribution, total, i + 1, DSub(score, DMul(deviation, Float05)))

calculate_difficulty_score(distribution, total) ==
  DMax(DFromInt(0), DifficultyDeduct(distribution, total, 1, DFromInt(100)))

calculate_quality_score(analysis, total) ==
  LET ambiguous_count == Len(analysis.ambiguous_questions)
      s1 == DSub(DFromInt(100),
                 IF total > 0 THEN DMul(FloatPercentage(ambiguous_count, total), Float05)
                 ELSE DFromInt(0))
      issues_count == Len(analysis.quality_issues)
      s2 == DSub(s1, IF total > 0 THEN DMul(FloatPercentage(issues_count, total), Float05)
                     ELSE DFromInt(0))
  IN  DMax(DFromInt(0), s2)

\* round(x, 2), as the exact number of hundredths it returns
round2(x) == Frac(DHundredths(x), 100)

generate_feedback(score, grade) ==
  IF DLe(DFromInt(90), score)
  THEN "Excellent question paper with comprehensive cognitive level coverage and good balance."
  ELSE IF DLe(DFromInt(75), score)
  THEN "Good question paper. Minor improvements suggested for better balance."
  ELSE IF DLe(DFromInt(60), score)
  THEN "Fair question paper. Several improvements needed for comprehensive coverage."
  ELSE "Significant improvements needed. Review suggestions carefully."

\* the weighted sum with the weights 0.3, 0.4, 0.3
ScoreFromComponents_Weights343(analysis) ==
  LET total_questions == analysis.total_questions
      blooms_score == calculate_blooms_score(analysis.blooms_distribution, total_questions)
      difficulty_score ==
        calculate_difficulty_score(analysis.difficulty_distribution, total_questions)
      quality_score == calculate_quality_score(analysis, total_questions)
      overall_score == DAdd(DAdd(DMul(blooms_score, Float03), DMul(difficulty_score, Float04)),
                            DMul(quality_score, Float03))
      grade == IF DLe(DFromInt(90), overall_score) THEN "Excellent"
               ELSE IF DLe(DFromInt(75), overall_score) THEN "Good"
               ELSE IF DLe(DFromInt(60), overall_score) THEN "Fair"
               ELSE "Needs Improvement"
  IN  IF Raised(blooms_score) THEN blooms_score
      ELSE [ score |-> round2(overall_score),
             grade |-> grade,
             blooms_score |-> round2(blooms_score),
             difficulty_score |-> round2(difficulty_score),
             quality_score |-> round2(quality_score),
             feedback |-> generate_feedback(overall_score, grade) ]

\* calculate_overall_score from line 299 on: the three component scores,
\* the weighted sum, the grade and the returned dict
ScoreFromComponents(analysis) ==
  LET total_questions == analysis.total_questions
      blooms_score == calculate_blooms_score(analysis.blooms_distribution, total_questions)
      difficulty_score ==
        calculate_difficulty_score(analysis.difficulty_distribution, total_questions)
      quality_score == calculate_quality_score(analysis, total_questions)
      overall_score == DAdd(DAdd(DMul(blooms_score, Float04), DMul(difficulty_score, Float03)),
                            DMul(quality_score, Float03))
      grade == IF DLe(DFromInt(90), overall_score) THEN "Excellent"
               ELSE IF DLe(DFromInt(75), overall_score) THEN "Good"
               ELSE IF DLe(DFromInt(60), overall_score) THEN "Fair"
               ELSE "Needs Improvement"
  IN  IF Raised(blooms_score) THEN blooms_score
      ELSE [ score |-> round2(overall_score),
             grade |-> grade,
             blooms_score |-> round2(blooms_score),
             difficulty_score |-> round2(difficulty_score),
             quality_score |-> round2(quality_score),
             feedback |-> generate_feedback(overall_score, grade) ]

\* the component-score methods that ScoreFromComponents has entered when it
\* returns or raises: the first one raises when total is 0
ComponentCalls(analysis) ==
  IF analysis.total_questions = 0
  THEN {"_calculate_blooms_score"}
  ELSE {"_calculate_blooms_score", "_calculate_difficulty_score", "_calculate_quality_score"}

\* calculate_overall_score without its early return for an empty paper
calculate_overall_score_NoEarlyReturn(analysis) ==
  [ result |-> ScoreFromComponents(analysis), evaluated |-> ComponentCalls(analysis) ]

\* the returned dict (or the exception) and the component scores evaluated
calculate_overall_score(analysis) ==
  IF analysis.total_questions = 0
  THEN [ result |-> [score |-> Int2F(0), grade |-> "N/A", feedback |-> "No questions to analyze"],
         evaluated |-> {} ]
  ELSE [ result |-> ScoreFromComponents(analysis), evaluated |-> ComponentCalls(analysis) ]

(***************************************************************************)
(* Report renderer (NLPAnalyzer.generate_text_report)                      *)
(***************************************************************************)

\* "=" * 70 and "-" * 70
RuleOfEquals == "======================================================================"
RuleOfDashes == "----------------------------------------------------------------------"

\* f"{overall['score']}": the int 0 of the early return, else repr of the float
ScoreText(overall) ==
  IF overall.grade = "N/A" THEN "0"
  ELSE ReprOfHundredths((overall.score.num * 100) \div overall.score.den)

\* a listing whose title is written even when no question is listed
ListingLines_AlwaysTitled(title, items, label, key) ==
  << title, RuleOfDashes >>
    \o (IF items = << >> THEN << "" >>
        ELSE [i \in 1..Len(items) |->
                "Q" \o ToString(items[i].question_number) \o ": " \o items[i].question])

\* the lines up to the overall assessment
HeaderLines(paper_id, filename, subject, generated, analysis) ==
  << RuleOfEquals,
     "AI-BASED QUESTION PAPER MODERATION REPORT",
     RuleOfEquals,
     "",
     "Report ID: " \o ToString(paper_id),
     "Filename: " \o filename,
     "Subject: " \o subject,
     "Generated: " \o generated,
     "Total Questions: " \o ToString(analysis.total_questions),
     "" >>

OverallLines(overall) ==
  << "OVERALL ASSESSMENT",
     RuleOfDashes,
     "Overall Score: " \o ScoreText(overall) \o "/100",
     "Grade: " \o overall.grade,
     "Feedback: " \o overall.feedback,
     "" >>

\* f"{level:15}: {count:3} questions ({pct:5.1f}%)"
DistributionLine(level, count, total) ==
  LET pct == GuardedFloatPercentage(count, total)
      shown == Format1f(pct)
  IN  ljust(level, 15) \o ": " \o rjust(ToString(count), 3) \o " questions ("
        \o rjust(shown, 5) \o "%)"

\* a distribution section: its title, the rule, one line per key, a blank line
DistributionLines(title, keys, distribution, total) ==
  << title, RuleOfDashes >>
    \o [k \in 1..Len(keys) |-> DistributionLine(keys[k], distribution[keys[k]], total)]
    \o << "" >>

RECURSIVE ItemLines(_, _, _)
\* the three lines of each listed question: its text, its findings, a blank
ItemLines(items, label, key) ==
  IF items = << >> THEN << >>
  ELSE << "Q" \o ToString(items[1].question_number) \o ": " \o items[1].question,
          "  " \o label \o ": " \o JoinWith(", ", items[1][key]),
          "" >>
         \o ItemLines(Tail(items), label, key)

\* a section that is left out when the analysis lists no such question
ListingLines(title, items, label, key) ==
  IF items = << >> THEN << >>
  ELSE << title, RuleOfDashes >> \o ItemLines(items, label, key)

\* the marker of a high priority, the character U+26A0, and that of any
\* other, the character U+2139, written in ASCII
priority_marker(suggestion) == IF suggestion.priority = "high" THEN "!" ELSE "i"

\* f"{i}. [{priority_marker}] {suggestion['message']}"
RecommendationLine(i, suggestion) ==
  ToString(i) \o ". [" \o priority_marker(suggestion) \o "] " \o suggestion.message

RecommendationLines(suggestion_list) ==
  IF suggestion_list = << >> THEN << >>
  ELSE << "RECOMMENDATIONS", RuleOfDashes >>
         \o [i \in 1..Len(suggestion_list) |-> RecommendationLine(i, suggestion_list[i])]
         \o << "" >>

FooterLines == << RuleOfEquals, "End of Report", RuleOfEquals >>

\* the list `report` of generate_text_report when it is joined
ReportLines(paper_id, filename, subject, generated, analysis, suggestion_list) ==
  HeaderLines(paper_id, filename, subject, generated, analysis)
    \o OverallLines(calculate_overall_score(analysis).result)
    \o DistributionLines("BLOOM'S TAXONOMY DISTRIBUTION", BloomsLevels,
                         analysis.blooms_distribution, analysis.total_questions)
    \o DistributionLines("DIFFICULTY DISTRIBUTION", DifficultyLevels,
                         analysis.difficulty_distribution, analysis.total_questions)
    \o ListingLines("AMBIGUOUS QUESTIONS DETECTED", analysis.ambiguous_questions,
                    "Indicators", "indicators")
    \o ListingLines("QUALITY ISSUES", analysis.quality_issues, "Issues", "issues")
    \o RecommendationLines(suggestion_list)
    \o FooterLines

\* the list and the text "\n".join(report) that is returned
JoinedReport(lines) == [lines |-> lines, text |-> JoinWith("\n", lines)]

generate_text_report(paper_id, filename, subject, generated, analysis, suggestion_list) ==
  JoinedReport(ReportLines(paper_id, filename, subject, generated, analysis, suggestion_list))

(***************************************************************************)
(* Command-line moderator (qpaper_mod.py): its copy of the classifier      *)
(***************************************************************************)

blooms_levels ==
  << "Knowledge", "Comprehension", "Application", "Analysis", "Synthesis", "Evaluation" >>

moderator_difficulty_keywords ==
  [ easy |-> << "define", "list", "identify", "recall", "name" >>,
    medium |-> << "explain", "describe", "compare", "discuss", "summarize" >>,
    hard |-> << "analyze", "evaluate", "critique", "justify", "assess" >> ]

ambiguity_indicators ==
  << "etc.", "and so on", "various", "several", "many",
     "some cases", "sometimes", "possibly", "maybe" >>

\* any(word in question_lower for word in words)
AnyWordIn(question_lower, words) == \E word \in words : Contains(question_lower, word)

\* QuestionPaperModerator.classify_blooms_level
moderator_classify_blooms_level(question) ==
  LET question_lower == lower(question)
  IN  IF AnyWordIn(question_lower, {"analyze", "compare", "contrast", "distinguish"})
      THEN "Analysis"
      ELSE IF AnyWordIn(question_lower, {"create", "design", "compose", "construct"})
      THEN "Synthesis"
      ELSE IF AnyWordIn(question_lower, {"evaluate", "judge", "criticize", "justify", "assess"})
      THEN "Evaluation"
      ELSE IF AnyWordIn(question_lower, {"apply", "solve", "use", "demonstrate", "calculate"})
      THEN "Application"
      ELSE IF AnyWordIn(question_lower, {"explain", "describe", "discuss", "interpret"})
      THEN "Comprehension"
      ELSE "Knowledge"

\* sum(1 for word in self.difficulty_keywords[tier] if word in question_lower)
ModeratorCount(question_lower, tier) ==
  Cardinality({k \in 1..Len(moderator_difficulty_keywords[tier]) :
                 Contains(question_lower, moderator_difficulty_keywords[tier][k])})

\* QuestionPaperModerator.estimate_difficulty
moderator_estimate_difficulty(question) ==
  LET question_lower == lower(question)
      hard_count == ModeratorCount(question_lower, "hard")
      medium_count == ModeratorCount(question_lower, "medium")
      easy_count == ModeratorCount(question_lower, "easy")
  IN  IF hard_count > medium_count /\ hard_count > easy_count THEN "Hard"
      ELSE IF medium_count > easy_count THEN "Medium"
      ELSE "Easy"

\* QuestionPaperModerator.detect_ambiguity
moderator_detect_ambiguity(question) ==
  LET question_lower == lower(question)
      found_indicators ==
        SelectSeq(ambiguity_indicators, LAMBDA ind : Contains(question_lower, ind))
  IN  [is_ambiguous |-> Len(found_indicators) > 0, indicators |-> found_indicators]

\* one iteration of the loop of process_questions, for the i-th question
ProcessOne(results, i, question) ==
  LET blooms_level == moderator_classify_blooms_level(question)
      difficulty == moderator_estimate_difficulty(question)
      amb == moderator_detect_ambiguity(question)
  IN  [ results EXCEPT
          !.blooms_distribution[blooms_level] = @ + 1,
          !.difficulty_distribution[difficulty] = @ + 1,
          !.ambiguous_questions =
             IF amb.is_ambiguous
             THEN Append(@, [question_number |-> i, question |-> question,
                             indicators |-> amb.indicators])
             ELSE @,
          !.question_details =
             Append(@, [ number |-> i,
                         text |-> question,
                         blooms_level |-> blooms_level,
                         difficulty |-> difficulty,
                         ambiguous |-> amb.is_ambiguous ]) ]

RECURSIVE ProcessFrom(_, _, _)
\* the loop of process_questions from the i-th question on
ProcessFrom(results, question_list, i) ==
  IF i > Len(question_list) THEN results
  ELSE ProcessFrom(ProcessOne(results, i, question_list[i]), question_list, i + 1)

\* QuestionPaperModerator.process_questions
process_questions(question_list) ==
  ProcessFrom([ total_questions |-> Len(question_list),
                blooms_distribution |-> [level \in {blooms_levels[k] : k \in DOMAIN blooms_levels} |-> 0],
                difficulty_distribution |-> [Easy |-> 0, Medium |-> 0, Hard |-> 0],
                ambiguous_questions |-> << >>,
                question_details |-> << >> ],
              question_list, 1)

(***************************************************************************)
(* Inputs: the questions the engine is run on                              *)
(***************************************************************************)

\* tokens per generated question
MaxTokens == 2
\* questions per generated batch
MaxQuestions == 3

Vocabulary ==
  {"Define", "explain", "analyze", "evaluate", "describe", "use", "various", "it"}

\* numbers of filler words appended, so that the word counts fall on both
\* sides of the thresholds 5, 10, 20 and 40 of the classifier
PadCounts == {0, 3, 9, 19, 39}

RECURSIVE Join(_)
\* " ".join(tokens)
Join(tokens) ==
  IF tokens = << >> THEN ""
  ELSE IF Len(tokens) = 1 THEN tokens[1]
  ELSE tokens[1] \o " " \o Join(Tail(tokens))

RECURSIVE Pad(_, _)
\* s followed by n filler words
Pad(s, n) == IF n = 0 THEN s ELSE Pad(s, n - 1) \o " x"

TokenSeqs == UNION {[1..n -> Vocabulary] : n \in 0..MaxTokens}

GeneratedQuestions == {Pad(Join(t), n) : t \in TokenSeqs, n \in PadCounts}

ScenarioQuestions ==
  { "Define the term algorithm.",
    "Analyze the various causes of inflation and evaluate several policy responses.",
    "Define DNA.",
    "",
    "   ",
    "Define\tthe term",
    "Explain.",
    "Redefine somewhat is known",
    "Howdy user",
    "List a,;, b",
    "List a, b; c, d",
    "This term is vague",
    "It is what it is",
    "Is it not unlikely, wouldn't you say, etc.",
    "Why is that never  inferior, sometimes;;; don't you think",
    "Compare and contrast, then synthesize, design and justify a proof",
    Pad("Analyze and evaluate", 99) }

QuestionPool == GeneratedQuestions \cup ScenarioQuestions

\* one question of each cognitive level and of each difficulty tier, one
\* ambiguous and one with a quality issue
BatchPool ==
  { "Define the term algorithm.",
    "Explain how it works in various cases, and why, step by step, for all.",
    "Use the formula",
    "Analyze and evaluate the design",
    "Design a test" }

QuestionLists ==
  {<<q>> : q \in QuestionPool} \cup UNION {[1..n -> BatchPool] : n \in 0..MaxQuestions}

\* copies of the dominant question of a generated paper
MaxBulk == 12
\* copies of each other question of a generated paper
MaxFew == 1

\* one question of each cognitive level
LevelQuestion ==
  [ Knowledge |-> "Define the term algorithm.",
    Comprehension |-> "Explain how it works in various cases, and why, step by step, for all.",
    Application |-> "Use the formula to find the area of the two given shapes below",
    Analysis |-> "Analyze and evaluate the design",
    Synthesis |-> "Design a test",
    Evaluation |-> "Justify the claim that it is mostly right" ]

\* a generated paper has many questions of one level and few of three others,
\* the few ones first and against the canonical order of the levels
PaperShapes ==
  { [bulk |-> "Knowledge", few |-> << "Analysis", "Application", "Comprehension" >>],
    [bulk |-> "Comprehension", few |-> << "Evaluation", "Synthesis", "Knowledge" >>] }

RECURSIVE Copies(_, _)
\* [q] * n
Copies(q, n) == IF n = 0 THEN << >> ELSE << q >> \o Copies(q, n - 1)

Paper(shape, bulk_count, few_counts) ==
  Copies(LevelQuestion[shape.few[1]], few_counts[1])
    \o Copies(LevelQuestion[shape.few[2]], few_counts[2])
    \o Copies(LevelQuestion[shape.few[3]], few_counts[3])
    \o Copies(LevelQuestion[shape.bulk], bulk_count)

\* a paper of 15 questions, 11 of them at one level, 4 Easy, 7 Medium and
\* 4 Hard, two with a quality issue: its weighted score is 60 in exact
\* arithmetic
GradeBoundaryPaper ==
  Copies("Define the term algorithm.", 4)
    \o Copies("State the three laws of motion Newton published in his famous old book", 7)
    \o Copies("Explain and justify, then prove that it holds", 2)
    \o << "Use the lemma to prove and justify the bound", "Analyze and evaluate the design" >>

\* papers of 6 to MaxBulk + 3 * MaxFew questions
PaperLists ==
  { Paper(shape, b, f) :
      shape \in PaperShapes, b \in (MaxBulk - 6)..MaxBulk, f \in [1..3 -> 0..MaxFew] }
    \cup { GradeBoundaryPaper }

\* questions per list that is analyzed a second time in another order
MaxPermuted == 3

PermutedPool ==
  { "Define the term algorithm.",
    "Explain how it works in various cases, and why, step by step, for all.",
    "Analyze and evaluate the design" }

PermutedLists == UNION {[1..n -> PermutedPool] : n \in 0..MaxPermuted}

\* the orders in which n questions can be given
Orders(n) == {f \in [1..n -> 1..n] : \A i, j \in 1..n : f[i] = f[j] => i = j}

(***************************************************************************)
(* State                                                                   *)
(***************************************************************************)

VARIABLES
  questions,      \* the argument of analyze_questions
  analysis,       \* << >>, or <<r>> with r the dict analyze_questions returned
  suggestions,    \* << >>, or <<s>> with s the list generate_suggestions returned
  score,          \* << >>, or <<c>> with c what calculate_overall_score returned
  reanalysis,     \* << >>, or <<x>> with x a second call of analyze_questions: the
                  \* order it was given the questions in and the dict it returned
  tables_created, \* the tables of Database.initialize exist in the database file
  db,             \* the committed rows of the tables papers and questions
  uploads,        \* the names of the files in app.config['UPLOAD_FOLDER']
  clock,          \* datetime.now(), in seconds
  handled,        \* the number of requests handled so far
  request,        \* the last request handled, << >> before the first
  response,       \* the status and body returned for it
  calls,          \* the engine and database methods the handler called, in order
  issued,         \* the successful POST responses so far, in the order returned
  analyzer,       \* the attributes of the NLPAnalyzer instance shared by all callers
  threads,        \* the engine calls in progress, one record per calling thread
  moderated,      \* << >>, or <<r>> with r the dict process_questions returned
  report,         \* << >>, or <<t>> with t the lines generate_text_report returned
  conn,           \* the rows as the shared connection sees them: the committed
                  \* rows and those of its open transaction
  handlers        \* the requests in progress in save_paper or save_feedback, one
                  \* record per request thread

engine_vars == <<questions, analysis, suggestions, score, reanalysis>>
api_vars == <<tables_created, db, uploads, clock, handled, request, response, calls, issued>>
thread_vars == <<analyzer, threads>>
tool_vars == <<moderated, report>>
conn_vars == <<conn, handlers>>
vars == <<questions, analysis, suggestions, score, reanalysis,
          tables_created, db, uploads, clock, handled, request, response, calls, issued,
          analyzer, threads, moderated, report, conn, handlers>>

\* NLPAnalyzer.__init__: the tables it assigns to the new instance
NewAnalyzer ==
  [ blooms_keywords |-> blooms_keywords,
    difficulty_keywords |-> difficulty_keywords,
    ambiguity_patterns |-> ambiguity_patterns,
    quality_issues |-> quality_issue_names ]

\* the analyzer constructed and no call of it in progress
ThreadsIdle ==
  /\ analyzer = NewAnalyzer
  /\ threads = << >>

\* the command-line moderator not run, no report rendered
ToolsIdle ==
  /\ moderated = << >>
  /\ report = << >>

\* no request thread in a database method
ConnectionIdle ==
  /\ conn = << >>
  /\ handlers = << >>

\* no input given to the engine yet
EngineIdle ==
  /\ questions = << >>
  /\ analysis = << >>
  /\ suggestions = << >>
  /\ score = << >>
  /\ reanalysis = << >>

\* the tables of a database no row was ever inserted in
EmptyDatabase == [papers |-> << >>, questions |-> << >>, feedback |-> << >>]

\* the web application not started: no table, no file, no request
ApiIdle ==
  /\ tables_created = FALSE
  /\ db = EmptyDatabase
  /\ uploads = {}
  /\ clock = 0
  /\ handled = 0
  /\ request = << >>
  /\ response = << >>
  /\ calls = << >>
  /\ issued = << >>

(***************************************************************************)
(* The engine run on one input: analyze, then suggest and score            *)
(***************************************************************************)

Init ==
  /\ questions \in QuestionLists
  /\ analysis = << >>
  /\ suggestions = << >>
  /\ score = << >>
  /\ reanalysis = << >>
  /\ ApiIdle
  /\ ThreadsIdle
  /\ ToolsIdle
  /\ ConnectionIdle

AnalyzeQuestions ==
  /\ analysis = << >>
  /\ analysis' = <<analyze_questions(questions)>>
  /\ UNCHANGED <<questions, suggestions, score, reanalysis>>
  /\ UNCHANGED api_vars
  /\ UNCHANGED thread_vars
  /\ UNCHANGED tool_vars
  /\ UNCHANGED conn_vars

GenerateSuggestions ==
  /\ analysis # << >>
  /\ suggestions = << >>
  /\ suggestions' = <<generate_suggestions(analysis[1])>>
  /\ UNCHANGED <<questions, analysis, score, reanalysis>>
  /\ UNCHANGED api_vars
  /\ UNCHANGED thread_vars
  /\ UNCHANGED tool_vars
  /\ UNCHANGED conn_vars

CalculateOverallScore ==
  /\ analysis # << >>
  /\ score = << >>
  /\ score' = <<calculate_overall_score(analysis[1])>>
  /\ UNCHANGED <<questions, analysis, suggestions, reanalysis>>
  /\ UNCHANGED api_vars
  /\ UNCHANGED thread_vars
  /\ UNCHANGED tool_vars
  /\ UNCHANGED conn_vars

Next == AnalyzeQuestions \/ GenerateSuggestions \/ CalculateOverallScore

Spec == Init /\ [][Next]_vars

\* the engine run on a whole paper
InitPaper ==
  /\ questions \in PaperLists
  /\ analysis = << >>
  /\ suggestions = << >>
  /\ score = << >>
  /\ reanalysis = << >>
  /\ ApiIdle
  /\ ThreadsIdle
  /\ ToolsIdle
  /\ ConnectionIdle

SpecPaper == InitPaper /\ [][Next]_vars

\* the engine called twice: on a list, then on the same questions in some
\* order (the same order included)
InitReanalysis ==
  /\ questions \in PermutedLists
  /\ analysis = << >>
  /\ suggestions = << >>
  /\ score = << >>
  /\ reanalysis = << >>
  /\ ApiIdle
  /\ ThreadsIdle
  /\ ToolsIdle
  /\ ConnectionIdle

AnalyzeReordered ==
  /\ analysis # << >>
  /\ reanalysis = << >>
  /\ \E order \in Orders(Len(questions)) :
       reanalysis' =
         << [ order |-> order,
              result |-> analyze_questions([k \in 1..Len(questions) |-> questions[order[k]]]) ] >>
  /\ UNCHANGED <<questions, analysis, suggestions, score>>
  /\ UNCHANGED api_vars
  /\ UNCHANGED thread_vars
  /\ UNCHANGED tool_vars
  /\ UNCHANGED conn_vars

NextReanalysis == AnalyzeQuestions \/ AnalyzeReordered

SpecReanalysis == InitReanalysis /\ [][NextReanalysis]_vars

\* the sample questions of test_system.py
SampleQuestions ==
  << "Define the term photosynthesis and explain its importance in the ecosystem.",
     "List the main components of a computer system.",
     "Describe the process of cell division in plants.",
     "Analyze the impact of climate change on biodiversity in tropical rainforests.",
     "Evaluate the effectiveness of renewable energy sources compared to fossil fuels.",
     "Create a hypothesis explaining the relationship between temperature and enzyme activity.",
     "Solve the quadratic equation: x^2 - 5x + 6 = 0.",
     "Explain the concept of supply and demand in economics.",
     "Identify the major causes of World War I.",
     "Discuss the role of DNA in heredity." >>

\* the questions both copies of the classifier are run on
ModeratorQuestions ==
  {q \in ScenarioQuestions : Len(q) <= Len(SampleQuestions[6])}
    \cup {SampleQuestions[k] : k \in DOMAIN SampleQuestions}
    \cup {Join(<<a, b>>) : a, b \in Vocabulary}
    \cup {"Some people often disagree", "It holds in some cases"}

\* the same questions given to NLPAnalyzer.analyze_questions and to
\* QuestionPaperModerator.process_questions
InitModerator ==
  /\ questions \in {<<q>> : q \in ModeratorQuestions} \cup {SampleQuestions}
  /\ analysis = << >>
  /\ suggestions = << >>
  /\ score = << >>
  /\ reanalysis = << >>
  /\ ApiIdle
  /\ ThreadsIdle
  /\ ToolsIdle
  /\ ConnectionIdle

\* moderator.process_questions(questions)
ProcessQuestions ==
  /\ moderated = << >>
  /\ moderated' = <<process_questions(questions)>>
  /\ UNCHANGED report
  /\ UNCHANGED conn_vars
  /\ UNCHANGED engine_vars
  /\ UNCHANGED api_vars
  /\ UNCHANGED thread_vars

NextModerator == AnalyzeQuestions \/ ProcessQuestions

SpecModerator == InitModerator /\ [][NextModerator]_vars

\* questions per rendered paper
MaxReportQuestions == 3

\* a question with no finding, an ambiguous one, one with a quality issue and
\* one with both
ReportPool ==
  { "Define DNA.", "List several parts", "List a,;, b", "It holds in some cases, maybe" }

\* a paper no suggestion is made for: one question per cognitive level, two
\* per difficulty tier, no finding
BalancedPaper ==
  << "Define the term algorithm.",
     "Explain how a compiler translates source code into machine code for the target processor",
     "Use the formula to compute the area of the two given shapes below, please",
     "Analyze and evaluate the design",
     "Design a test",
     "Justify and critique the proof" >>

ReportLists ==
  UNION {[1..n -> ReportPool] : n \in 0..MaxReportQuestions} \cup {BalancedPaper}

\* datetime.now().strftime('%Y-%m-%d %H:%M:%S') at second t of the clock
ReportTime(t) == "2025-01-01 00:00:0" \o ToString(t)

\* the engine run on a paper to be rendered
InitReport ==
  /\ questions \in ReportLists
  /\ analysis = << >>
  /\ suggestions = << >>
  /\ score = << >>
  /\ reanalysis = << >>
  /\ ApiIdle
  /\ ThreadsIdle
  /\ ToolsIdle
  /\ ConnectionIdle

\* analyzer.generate_text_report(paper_id, filename, subject, analysis,
\* suggestions) as export_report calls it
GenerateTextReport ==
  /\ analysis # << >>
  /\ suggestions # << >>
  /\ report = << >>
  /\ report' = << generate_text_report(1, "paper.txt", "Biology", ReportTime(clock),
                                       analysis[1], suggestions[1]) >>
  /\ UNCHANGED moderated
  /\ UNCHANGED conn_vars
  /\ UNCHANGED engine_vars
  /\ UNCHANGED api_vars
  /\ UNCHANGED thread_vars

NextReport == AnalyzeQuestions \/ GenerateSuggestions \/ GenerateTextReport

SpecReport == InitReport /\ [][NextReport]_vars

(***************************************************************************)
(* Concurrent callers of the one analyzer of backend/app.py: each request  *)
(* thread runs analyze_questions one loop iteration at a time, then        *)
(* generate_suggestions and calculate_overall_score                        *)
(***************************************************************************)

\* request threads
MaxThreads == 2

Threads == 1..MaxThreads

\* the question lists the threads pass
ThreadInputs ==
  { << "Define the term algorithm." >>,
    << "Explain how it works in various cases, and why, step by step, for all.",
       "Analyze and evaluate the design" >> }

\* a thread that has not called the engine
IdleThread ==
  [ pc |-> "idle", arg |-> << >>, given |-> << >>, i |-> 0, results |-> << >>,
    returned |-> << >>, suggestions |-> << >>, score |-> << >> ]

\* where the results dict of a call lives: a local variable of the call,
\* seen by the calling thread only
ResultsSlot_OnInstance(t) == 1

ResultsSlot(t) == t

InitThreads ==
  /\ analyzer = NewAnalyzer
  /\ threads = [t \in Threads |-> IdleThread]
  /\ EngineIdle
  /\ ApiIdle
  /\ ToolsIdle
  /\ ConnectionIdle

\* analyze_questions entered: the results dict created (lines 79-86)
CallAnalyze(t) ==
  /\ threads[t].pc = "idle"
  /\ \E question_list \in ThreadInputs :
       threads' = [threads EXCEPT ![t].pc = "loop",
                                  ![t].arg = question_list,
                                  ![t].given = question_list,
                                  ![t].i = 1,
                                  ![ResultsSlot(t)].results = << EmptyResults(question_list) >>]
  /\ UNCHANGED analyzer
  /\ UNCHANGED engine_vars
  /\ UNCHANGED api_vars
  /\ UNCHANGED tool_vars
  /\ UNCHANGED conn_vars

\* one iteration of the loop over enumerate(questions, 1) (lines 88-136)
LoopStep(t) ==
  /\ threads[t].pc = "loop"
  /\ threads[t].i <= Len(threads[t].arg)
  /\ threads' = [threads EXCEPT
                   ![t].i = @ + 1,
                   ![ResultsSlot(t)].results =
                      << AnalyzeOne(@[1], threads[t].i, threads[t].arg[threads[t].i]) >>]
  /\ UNCHANGED analyzer
  /\ UNCHANGED engine_vars
  /\ UNCHANGED api_vars
  /\ UNCHANGED tool_vars
  /\ UNCHANGED conn_vars

\* return results (line 138)
ReturnAnalysis(t) ==
  /\ threads[t].pc = "loop"
  /\ threads[t].i > Len(threads[t].arg)
  /\ threads' = [threads EXCEPT ![t].pc = "suggest",
                                 ![t].returned = threads[ResultsSlot(t)].results]
  /\ UNCHANGED analyzer
  /\ UNCHANGED engine_vars
  /\ UNCHANGED api_vars
  /\ UNCHANGED tool_vars
  /\ UNCHANGED conn_vars

\* generate_suggestions on the returned analysis
SuggestStep(t) ==
  /\ threads[t].pc = "suggest"
  /\ threads' = [threads EXCEPT ![t].pc = "score",
                                 ![t].suggestions = << generate_suggestions(threads[t].returned[1]) >>]
  /\ UNCHANGED analyzer
  /\ UNCHANGED engine_vars
  /\ UNCHANGED api_vars
  /\ UNCHANGED tool_vars
  /\ UNCHANGED conn_vars

\* calculate_overall_score on the returned analysis
ScoreStep(t) ==
  /\ threads[t].pc = "score"
  /\ threads' = [threads EXCEPT ![t].pc = "done",
                                 ![t].score = << calculate_overall_score(threads[t].returned[1]) >>]
  /\ UNCHANGED analyzer
  /\ UNCHANGED engine_vars
  /\ UNCHANGED api_vars
  /\ UNCHANGED tool_vars
  /\ UNCHANGED conn_vars

NextThreads ==
  \/ \E t \in Threads : CallAnalyze(t)
  \/ \E t \in Threads : LoopStep(t)
  \/ \E t \in Threads : ReturnAnalysis(t)
  \/ \E t \in Threads : SuggestStep(t)
  \/ \E t \in Threads : ScoreStep(t)

SpecThreads == InitThreads /\ [][NextThreads]_vars

(***************************************************************************)
(* Persistence layer (core/database.py)                                    *)
(***************************************************************************)

\* the id SQLite gives the next row of an AUTOINCREMENT table no row of which
\* was ever deleted
NextRowId(rows) == Len(rows) + 1

\* what SQLite keeps of a Python bool bound to a BOOLEAN column
SqlBoolean(b) == IF b THEN 1 ELSE 0

\* the members of the JSON object json.dumps writes for a dict, in the dict's
\* insertion order
JsonObject(dict, keys) == [k \in 1..Len(keys) |-> [name |-> keys[k], value |-> dict[keys[k]]]]

\* the dict json.loads builds from the members of an object: the last member
\* of a name wins
JsonDict(members) ==
  [ name \in {members[k].name : k \in DOMAIN members} |->
      LET last == CHOOSE k \in DOMAIN members :
                    /\ members[k].name = name
                    /\ \A j \in DOMAIN members : members[j].name = name => j <= k
      IN  members[last].value ]

\* the keys of the dicts of an analysis, in insertion order
AnalysisKeys ==
  << "total_questions", "blooms_distribution", "difficulty_distribution",
     "ambiguous_questions", "quality_issues", "question_details" >>

AmbiguousKeys == << "question_number", "question", "indicators" >>

IssueKeys == << "question_number", "question", "issues" >>

DetailKeys ==
  << "number", "text", "blooms_level", "difficulty", "ambiguous",
     "cognitive_load", "word_count", "quality_score" >>

\* json.dumps(analysis): every dict becomes an object, every list an array
json_dumps(analysis_results) ==
  JsonObject(
    [ total_questions |-> analysis_results.total_questions,
      blooms_distribution |->
        JsonObject(analysis_results.blooms_distribution, BloomsLevels),
      difficulty_distribution |->
        JsonObject(analysis_results.difficulty_distribution, DifficultyLevels),
      ambiguous_questions |->
        [ k \in DOMAIN analysis_results.ambiguous_questions |->
            JsonObject(analysis_results.ambiguous_questions[k], AmbiguousKeys) ],
      quality_issues |->
        [ k \in DOMAIN analysis_results.quality_issues |->
            JsonObject(analysis_results.quality_issues[k], IssueKeys) ],
      question_details |->
        [ k \in DOMAIN analysis_results.question_details |->
            JsonObject(analysis_results.question_details[k], DetailKeys) ] ],
    AnalysisKeys)

\* json.loads of the text json_dumps wrote
json_loads(text) ==
  LET top == JsonDict(text)
  IN  [ total_questions |-> top.total_questions,
        blooms_distribution |-> JsonDict(top.blooms_distribution),
        difficulty_distribution |-> JsonDict(top.difficulty_distribution),
        ambiguous_questions |->
          [ k \in DOMAIN top.ambiguous_questions |-> JsonDict(top.ambiguous_questions[k]) ],
        quality_issues |->
          [ k \in DOMAIN top.quality_issues |-> JsonDict(top.quality_issues[k]) ],
        question_details |->
          [ k \in DOMAIN top.question_details |-> JsonDict(top.question_details[k]) ] ]

\* the question rows save_paper inserts for the paper, in the order of
\* analysis['question_details']
QuestionRows(dbv, paper_id, analysis_data) ==
  [ k \in 1..Len(analysis_data.question_details) |->
      LET detail == analysis_data.question_details[k]
      IN  [ id |-> NextRowId(dbv.questions) + k - 1,
            paper_id |-> paper_id,
            question_number |-> detail.number,
            question_text |-> detail.text,
            blooms_level |-> detail.blooms_level,
            difficulty |-> detail.difficulty,
            is_ambiguous |-> SqlBoolean(detail.ambiguous),
            cognitive_load |-> detail.cognitive_load,
            quality_score |-> detail.quality_score ] ]

\* Database.save_paper on existing tables: the paper row, its question rows
\* and the commit; returns the database and the new paper's id
save_paper(dbv, filename, question_list, analysis_data) ==
  LET paper_id == NextRowId(dbv.papers)
      paper == [ id |-> paper_id,
                 filename |-> filename,
                 total_questions |-> Len(question_list),
                 analysis_data |-> json_dumps(analysis_data) ]
  IN  [ db |-> [ dbv EXCEPT !.papers = Append(dbv.papers, paper),
                            !.questions = dbv.questions
                                            \o QuestionRows(dbv, paper_id, analysis_data) ],
        paper_id |-> paper_id ]

RECURSIVE InsertByNumber(_, _)
\* the rows with row put after the last row whose question_number is not
\* greater than its own
InsertByNumber(rows, row) ==
  IF rows = << >> THEN << row >>
  ELSE IF rows[Len(rows)].question_number <= row.question_number THEN Append(rows, row)
  ELSE Append(InsertByNumber(SubSeq(rows, 1, Len(rows) - 1), row), rows[Len(rows)])

RECURSIVE OrderByQuestionNumber(_)
\* ORDER BY question_number
OrderByQuestionNumber(rows) ==
  IF rows = << >> THEN << >>
  ELSE InsertByNumber(OrderByQuestionNumber(SubSeq(rows, 1, Len(rows) - 1)), rows[Len(rows)])

\* SELECT * FROM papers, the WHERE clause left out
PapersWhereId_AnyId(dbv, paper_id) == dbv.papers

\* SELECT * FROM papers WHERE id = ?
PapersWhereId(dbv, paper_id) == SelectSeq(dbv.papers, LAMBDA row : row.id = paper_id)

\* Database.get_paper on existing tables: << >> for None, else the paper row
\* with its parsed analysis and its question rows
get_paper(dbv, paper_id) ==
  LET found == PapersWhereId(dbv, paper_id)
  IN  IF found = << >> THEN << >>
      ELSE << [ id |-> found[1].id,
                filename |-> found[1].filename,
                total_questions |-> found[1].total_questions,
                analysis_data |-> found[1].analysis_data,
                analysis |-> json_loads(found[1].analysis_data),
                questions |-> OrderByQuestionNumber(
                                SelectSeq(dbv.questions,
                                          LAMBDA row : row.paper_id = paper_id)) ] >>

\* Database.save_feedback on existing tables: the feedback row and the commit
save_feedback(dbv, paper_id, feedback_data, rating, comments) ==
  LET feedback_id == NextRowId(dbv.feedback)
  IN  [ db |-> [ dbv EXCEPT !.feedback =
                   Append(dbv.feedback, [ id |-> feedback_id,
                                          paper_id |-> paper_id,
                                          feedback_data |-> feedback_data,
                                          rating |-> rating,
                                          comments |-> comments ]) ],
        feedback_id |-> feedback_id ]

(***************************************************************************)
(* Web API (backend/app.py)                                                *)
(***************************************************************************)

\* requests handled before the model stops taking requests
MaxRequests == 2
\* the last second of the clock
MaxClock == 1
\* questions in the list of a JSON body
MaxBodyQuestions == 1

ALLOWED_EXTENSIONS == {"txt", "pdf", "doc", "docx"}

\* the index of the last "." of the name, 0 when it has none
LastDot(filename) ==
  LET dots == {i \in 1..Len(filename) : Char(filename, i) = "."}
  IN  IF dots = {} THEN 0 ELSE CHOOSE i \in dots : \A j \in dots : j <= i

\* '.' in filename and filename.rsplit('.', 1)[1].lower() in ALLOWED_EXTENSIONS
allowed_file(filename) ==
  /\ LastDot(filename) > 0
  /\ lower(SubSeq(filename, LastDot(filename) + 1, Len(filename))) \in ALLOWED_EXTENSIONS

RECURSIVE lstrip(_)
lstrip(s) == IF s # "" /\ IsSpace(Head(s)) THEN lstrip(Tail(s)) ELSE s

RECURSIVE rstrip(_)
rstrip(s) ==
  IF s # "" /\ IsSpace(Char(s, Len(s))) THEN rstrip(SubSeq(s, 1, Len(s) - 1)) ELSE s

\* str.strip()
strip(s) == rstrip(lstrip(s))

RECURSIVE SplitFrom(_, _, _)
\* the pieces of content.split('\n') from the piece that starts at start on
SplitFrom(content, start, i) ==
  IF i > Len(content) THEN << SubSeq(content, start, Len(content)) >>
  ELSE IF Char(content, i) = "\n"
  THEN << SubSeq(content, start, i - 1) >> \o SplitFrom(content, i + 1, i + 1)
  ELSE SplitFrom(content, start, i + 1)

\* [line.strip() for line in content.split('\n') if line.strip()]
QuestionsOfFile(content) ==
  LET lines == SplitFrom(content, 1, 1)
      stripped == [k \in 1..Len(lines) |-> strip(lines[k])]
  IN  SelectSeq(stripped, LAMBDA line : line # "")

\* datetime.now().strftime('%Y%m%d_%H%M%S') at second t of the clock
Timestamp(t) == "20250101_00000" \o ToString(t)

RECURSIVE ReplaceSeparators(_)
\* filename.replace(os.sep, " ")
ReplaceSeparators(s) ==
  IF s = "" THEN ""
  ELSE (IF Head(s) = "/" THEN " " ELSE Head(s)) \o ReplaceSeparators(Tail(s))

RECURSIVE JoinWords(_)
\* "_".join(s.split()) of a string that neither starts nor ends with white space
JoinWords(s) ==
  IF s = "" THEN ""
  ELSE IF IsSpace(Head(s)) THEN "_" \o JoinWords(lstrip(s))
  ELSE Head(s) \o JoinWords(Tail(s))

RECURSIVE KeepFilenameChars(_)
\* re.sub(r"[^A-Za-z0-9_.-]", "", s)
KeepFilenameChars(s) ==
  IF s = "" THEN ""
  ELSE (IF Head(s) \in WordChars \cup {".", "-"} THEN Head(s) ELSE "")
         \o KeepFilenameChars(Tail(s))

RECURSIVE StripDots(_)
\* s.strip("._")
StripDots(s) ==
  IF s # "" /\ Head(s) \in {".", "_"} THEN StripDots(Tail(s))
  ELSE IF s # "" /\ Char(s, Len(s)) \in {".", "_"} THEN StripDots(SubSeq(s, 1, Len(s) - 1))
  ELSE s

\* werkzeug's secure_filename on an ASCII name
secure_filename(filename) ==
  StripDots(KeepFilenameChars(JoinWords(strip(ReplaceSeparators(filename)))))

\* a response with an error message
Error(status, message) == [status |-> status, error |-> message]

\* the JSON bodies of POST /api/analyze
BodyQuestions == {"Define DNA.", "Explain how it works"}

JsonBodies ==
  { [kind |-> "none"], [kind |-> "empty_dict"], [kind |-> "dict_without_questions"] }
    \cup { [kind |-> "questions_list", questions |-> q] :
             q \in UNION {[1..n -> BodyQuestions] : n \in 0..MaxBodyQuestions} }
    \cup { [kind |-> "questions_string", text |-> "Define DNA."] }
    \cup { [kind |-> "questions_number"] }

\* the body of analyze_text: what it calls, what it stores, what it returns
analyze_text(data, now) ==
  IF data.kind \in {"none", "empty_dict", "dict_without_questions"}
  THEN [ response |-> Error(400, "No questions provided"), calls |-> << >>, db |-> db ]
  ELSE IF data.kind = "questions_number"
  THEN \* questions = [5]: question.lower() raises AttributeError
       [ response |-> Error(500, "AttributeError"),
         calls |-> << "analyze_questions" >>, db |-> db ]
  ELSE LET question_list == IF data.kind = "questions_list"
                            THEN data.questions ELSE << data.text >>
           analysis_results == analyze_questions(question_list)
           saved == save_paper(db, "text_input_" \o Timestamp(now) \o ".txt",
                               question_list, analysis_results)
       IN  IF ~tables_created
           THEN [ response |-> Error(500, "OperationalError: no such table: papers"),
                  calls |-> << "analyze_questions", "save_paper" >>, db |-> db ]
           ELSE [ response |-> [ status |-> 200,
                                 paper_id |-> saved.paper_id,
                                 total_questions |-> Len(question_list),
                                 analysis |-> analysis_results,
                                 suggestions |-> generate_suggestions(analysis_results) ],
                  calls |-> << "analyze_questions", "save_paper", "generate_suggestions" >>,
                  db |-> saved.db ]

\* POST /api/analyze with one of the bodies, while fewer than budget requests
\* were handled
AnalyzeTextOf(bodies, budget) ==
  /\ handled < budget
  /\ handled' = handled + 1
  /\ \E data \in bodies, now \in clock..MaxClock :
       \E out \in {analyze_text(data, now)} :
           /\ request' = [endpoint |-> "/api/analyze", data |-> data]
           /\ response' = out.response
           /\ calls' = out.calls
           /\ db' = out.db
           /\ clock' = now
           /\ issued' = IF out.response.status = 200 THEN Append(issued, out.response)
                        ELSE issued
  /\ UNCHANGED <<tables_created, uploads>>
  /\ UNCHANGED engine_vars
  /\ UNCHANGED thread_vars
  /\ UNCHANGED tool_vars
  /\ UNCHANGED conn_vars

\* POST /api/analyze
AnalyzeText == AnalyzeTextOf(JsonBodies, MaxRequests)

\* the multipart forms of POST /api/upload: readable is whether the file's
\* bytes decode as UTF-8
UploadNames == {"", "paper.txt", "../my paper.txt", "scan.PDF", "notes", "paper.exe"}

UploadContents == { "", "  \n\n \n", "Define DNA.\n", "Define DNA.\n\n  List a,;, b \n" }

UploadForms ==
  { [has_file |-> FALSE] }
    \cup { [has_file |-> TRUE, filename |-> f, content |-> "Define DNA.\n", readable |-> TRUE] :
             f \in UploadNames }
    \cup { [has_file |-> TRUE, filename |-> "paper.txt", content |-> c, readable |-> TRUE] :
             c \in UploadContents }
    \cup { [has_file |-> TRUE, filename |-> "scan.PDF", content |-> "", readable |-> FALSE] }

\* the body of upload_paper from the file.save of line 79 on
UploadSaved(form, now) ==
  LET filename == secure_filename(form.filename)
      unique_filename == Timestamp(now) \o "_" \o filename
      question_list == QuestionsOfFile(form.content)
      analysis_results == analyze_questions(question_list)
      saved == save_paper(db, unique_filename, question_list, analysis_results)
      stored == uploads \cup {unique_filename}
  IN  IF ~form.readable
      THEN [ response |-> Error(500, "UnicodeDecodeError"), calls |-> << >>,
             db |-> db, uploads |-> stored ]
      ELSE IF question_list = << >>
      THEN [ response |-> Error(400, "No questions found in file"), calls |-> << >>,
             db |-> db, uploads |-> stored ]
      ELSE IF ~tables_created
      THEN [ response |-> Error(500, "OperationalError: no such table: papers"),
             calls |-> << "analyze_questions", "save_paper" >>,
             db |-> db, uploads |-> stored ]
      ELSE [ response |-> [ status |-> 201,
                            paper_id |-> saved.paper_id,
                            filename |-> filename,
                            total_questions |-> Len(question_list),
                            analysis |-> analysis_results,
                            suggestions |-> generate_suggestions(analysis_results) ],
             calls |-> << "analyze_questions", "save_paper", "generate_suggestions" >>,
             db |-> saved.db, uploads |-> stored ]

upload_paper(form, now) ==
  IF ~form.has_file
  THEN [ response |-> Error(400, "No file provided"), calls |-> << >>,
         db |-> db, uploads |-> uploads ]
  ELSE IF form.filename = ""
  THEN [ response |-> Error(400, "No file selected"), calls |-> << >>,
         db |-> db, uploads |-> uploads ]
  ELSE IF ~allowed_file(form.filename)
  THEN [ response |-> Error(400, "File type not allowed"), calls |-> << >>,
         db |-> db, uploads |-> uploads ]
  ELSE UploadSaved(form, now)

\* POST /api/upload with one of the forms, while fewer than budget requests
\* were handled
UploadPaperOf(forms, budget) ==
  /\ handled < budget
  /\ handled' = handled + 1
  /\ \E form \in forms, now \in clock..MaxClock :
       \E out \in {upload_paper(form, now)} :
           /\ request' = [endpoint |-> "/api/upload", form |-> form]
           /\ response' = out.response
           /\ calls' = out.calls
           /\ db' = out.db
           /\ uploads' = out.uploads
           /\ clock' = now
           /\ issued' = IF out.response.status = 201 THEN Append(issued, out.response)
                        ELSE issued
  /\ UNCHANGED tables_created
  /\ UNCHANGED engine_vars
  /\ UNCHANGED thread_vars
  /\ UNCHANGED tool_vars
  /\ UNCHANGED conn_vars

\* POST /api/upload
UploadPaper == UploadPaperOf(UploadForms, MaxRequests)

\* the modules that start the application
EntryPoints == {"run.py", "backend/app.py", "api/index.py"}

\* the entry point calls db.initialize() before it serves a request: run.py
\* in initialize_application, backend/app.py under __main__; api/index.py
\* only imports the app
CallsInitialize(entry) == entry \in {"run.py", "backend/app.py"}

\* the application serving requests, started by one of its entry points on
\* a database file that has no tables yet
InitApi ==
  /\ tables_created \in {CallsInitialize(entry) : entry \in EntryPoints}
  /\ db = EmptyDatabase
  /\ uploads = {}
  /\ clock = 0
  /\ handled = 0
  /\ request = << >>
  /\ response = << >>
  /\ calls = << >>
  /\ issued = << >>
  /\ EngineIdle
  /\ ThreadsIdle
  /\ ToolsIdle
  /\ ConnectionIdle

NextApi == AnalyzeText \/ UploadPaper

SpecApi == InitApi /\ [][NextApi]_vars

\* the body of the get_paper of backend/app.py
app_get_paper(paper_id) ==
  IF ~tables_created
  THEN [ response |-> Error(500, "OperationalError: no such table: papers"),
         calls |-> << "get_paper" >> ]
  ELSE LET paper == get_paper(db, paper_id)
       IN  IF paper = << >>
           THEN [ response |-> Error(404, "Paper not found"), calls |-> << "get_paper" >> ]
           ELSE [ response |-> [status |-> 200, paper |-> paper[1]],
                  calls |-> << "get_paper" >> ]

\* the body of get_report
get_report(paper_id) ==
  IF ~tables_created
  THEN [ response |-> Error(500, "OperationalError: no such table: papers"),
         calls |-> << "get_paper" >> ]
  ELSE LET paper == get_paper(db, paper_id)
       IN  IF paper = << >>
           THEN [ response |-> Error(404, "Paper not found"), calls |-> << "get_paper" >> ]
           ELSE LET stored == paper[1].analysis
                IN  [ response |->
                        [ status |-> 200,
                          paper_id |-> paper_id,
                          filename |-> paper[1].filename,
                          total_questions |-> stored.total_questions,
                          blooms_distribution |-> stored.blooms_distribution,
                          difficulty_distribution |-> stored.difficulty_distribution,
                          ambiguous_questions |-> stored.ambiguous_questions,
                          suggestions |-> generate_suggestions(stored),
                          overall_score |-> calculate_overall_score(stored) ],
                      calls |-> << "get_paper", "generate_suggestions",
                                   "calculate_overall_score" >> ]

\* the body of submit_feedback
submit_feedback(data) ==
  IF data.kind \in {"none", "empty_dict", "dict_without_paper_id"}
  THEN [ response |-> Error(400, "Paper ID required"), calls |-> << >>, db |-> db ]
  ELSE IF ~tables_created
  THEN [ response |-> Error(500, "OperationalError: no such table: feedback"),
         calls |-> << "save_feedback" >>, db |-> db ]
  ELSE LET \* data.get('feedback', {}) and data.get('comments', '') of a body
           \* that has neither, the dict as json.dumps writes it
           saved == save_feedback(db, data.paper_id, "{}", data.rating, "")
       IN  [ response |-> [ status |-> 201,
                            message |-> "Feedback submitted successfully",
                            feedback_id |-> saved.feedback_id ],
             calls |-> << "save_feedback" >>, db |-> saved.db ]

\* requests handled before the model of the stored papers stops taking requests
MaxStoreRequests == 3

\* the paper ids the GET requests and the feedback name: those a POST can have
\* issued, and one more
StorePaperIds == 1..MaxStoreRequests

StoreBodies ==
  { [kind |-> "none"],
    [kind |-> "questions_list", questions |-> << >>],
    [kind |-> "questions_list", questions |-> << "Define DNA." >>],
    [kind |-> "questions_list", questions |-> << "Explain how it works", "Define DNA." >>] }

StoreForms ==
  { [has_file |-> TRUE, filename |-> "paper.txt",
     content |-> "Define DNA.\n\n  List a,;, b \n", readable |-> TRUE] }

FeedbackBodies ==
  { [kind |-> "none"], [kind |-> "dict_without_paper_id"] }
    \cup { [kind |-> "feedback", paper_id |-> p, rating |-> 5] : p \in StorePaperIds }

\* GET /api/papers/<paper_id>
GetPaper ==
  /\ handled < MaxStoreRequests
  /\ handled' = handled + 1
  /\ \E paper_id \in StorePaperIds :
       \E out \in {app_get_paper(paper_id)} :
           /\ request' = [endpoint |-> "/api/papers/<paper_id>", paper_id |-> paper_id]
           /\ response' = out.response
           /\ calls' = out.calls
  /\ UNCHANGED <<tables_created, db, uploads, clock, issued>>
  /\ UNCHANGED engine_vars
  /\ UNCHANGED thread_vars
  /\ UNCHANGED tool_vars
  /\ UNCHANGED conn_vars

\* GET /api/papers/<paper_id>/report
GetReport ==
  /\ handled < MaxStoreRequests
  /\ handled' = handled + 1
  /\ \E paper_id \in StorePaperIds :
       \E out \in {get_report(paper_id)} :
           /\ request' = [endpoint |-> "/api/papers/<paper_id>/report", paper_id |-> paper_id]
           /\ response' = out.response
           /\ calls' = out.calls
  /\ UNCHANGED <<tables_created, db, uploads, clock, issued>>
  /\ UNCHANGED engine_vars
  /\ UNCHANGED thread_vars
  /\ UNCHANGED tool_vars
  /\ UNCHANGED conn_vars

\* POST /api/feedback
SubmitFeedback ==
  /\ handled < MaxStoreRequests
  /\ handled' = handled + 1
  /\ \E data \in FeedbackBodies :
       \E out \in {submit_feedback(data)} :
           /\ request' = [endpoint |-> "/api/feedback", data |-> data]
           /\ response' = out.response
           /\ calls' = out.calls
           /\ db' = out.db
  /\ UNCHANGED <<tables_created, uploads, clock, issued>>
  /\ UNCHANGED engine_vars
  /\ UNCHANGED thread_vars
  /\ UNCHANGED tool_vars
  /\ UNCHANGED conn_vars

\* the application serving requests for stored papers, the clock at its
\* last second
InitStore ==
  /\ tables_created \in {CallsInitialize(entry) : entry \in EntryPoints}
  /\ db = EmptyDatabase
  /\ uploads = {}
  /\ clock = MaxClock
  /\ handled = 0
  /\ request = << >>
  /\ response = << >>
  /\ calls = << >>
  /\ issued = << >>
  /\ EngineIdle
  /\ ThreadsIdle
  /\ ToolsIdle
  /\ ConnectionIdle

NextStore ==
  \/ AnalyzeTextOf(StoreBodies, MaxStoreRequests)
  \/ UploadPaperOf(StoreForms, MaxStoreRequests)
  \/ GetPaper
  \/ GetReport
  \/ SubmitFeedback

SpecStore == InitStore /\ [][NextStore]_vars

(***************************************************************************)
(* The one connection of the Database object (Database._get_connection,    *)
(* check_same_thread=False), shared by the request threads: save_paper     *)
(* and save_feedback statement by statement                                *)
(***************************************************************************)

\* request threads of the server
MaxHandlers == 2

Handlers == 1..MaxHandlers

\* stands for the lone surrogate U+D800: a character a JSON body can carry
\* (written \ud800) and a Python str can hold, but UTF-8 cannot encode
LoneSurrogate == "~"

\* sqlite3 can bind the str as a parameter of a statement; for any other
\* str the execute raises UnicodeEncodeError
Utf8Encodable(text) == \A i \in 1..Len(text) : Char(text, i) # LoneSurrogate

\* the question lists of the JSON bodies of POST /api/analyze
ConnectionQuestions ==
  { << "Define DNA." >>,
    << "Explain how it works", "Define DNA." >>,
    << "Define DNA.", "Explain " \o LoneSurrogate \o " it" >> }

\* the INSERT INTO papers of save_paper on the connection, and lastrowid
InsertPaper(view, filename, question_list, analysis_data) ==
  LET paper_id == NextRowId(view.papers)
  IN  [ view |-> [ view EXCEPT !.papers =
                     Append(@, [ id |-> paper_id,
                                 filename |-> filename,
                                 total_questions |-> Len(question_list),
                                 analysis_data |-> json_dumps(analysis_data) ]) ],
        paper_id |-> paper_id ]

\* one INSERT INTO questions of the loop of save_paper on the connection
InsertQuestion(view, paper_id, detail) ==
  [ view EXCEPT !.questions =
      Append(@, [ id |-> NextRowId(view.questions),
                  paper_id |-> paper_id,
                  question_number |-> detail.number,
                  question_text |-> detail.text,
                  blooms_level |-> detail.blooms_level,
                  difficulty |-> detail.difficulty,
                  is_ambiguous |-> SqlBoolean(detail.ambiguous),
                  cognitive_load |-> detail.cognitive_load,
                  quality_score |-> detail.quality_score ]) ]

\* Database.get_statistics on the rows the connection sees: the two counts
get_statistics(view) ==
  [ total_papers |-> Len(view.papers),
    total_questions |-> Len(view.questions) ]

\* a thread that handles no request
IdleHandler == [pc |-> "idle", questions |-> << >>, paper_id |-> 0, k |-> 0]

\* the server started by backend/app.py: tables created, nothing stored, no
\* request in progress
InitConnection ==
  /\ tables_created = TRUE
  /\ db = EmptyDatabase
  /\ uploads = {}
  /\ clock = MaxClock
  /\ handled = 0
  /\ request = << >>
  /\ response = << >>
  /\ calls = << >>
  /\ issued = << >>
  /\ conn = EmptyDatabase
  /\ handlers = [t \in Handlers |-> IdleHandler]
  /\ EngineIdle
  /\ ThreadsIdle
  /\ ToolsIdle

\* what an action of a request thread leaves alone
ConnectionFrame ==
  /\ UNCHANGED <<tables_created, uploads, clock, handled, request, response, calls, issued>>
  /\ UNCHANGED engine_vars
  /\ UNCHANGED thread_vars
  /\ UNCHANGED tool_vars

\* analyze_text up to its call of db.save_paper: the body parsed and the
\* questions analysed
ReceiveAnalyze(t) ==
  /\ handlers[t].pc = "idle"
  /\ \E question_list \in ConnectionQuestions :
       handlers' = [handlers EXCEPT ![t] = [pc |-> "insert_paper",
                                            questions |-> question_list,
                                            paper_id |-> 0, k |-> 0]]
  /\ UNCHANGED <<db, conn>>
  /\ ConnectionFrame

\* submit_feedback up to its call of db.save_feedback
ReceiveFeedback(t) ==
  /\ handlers[t].pc = "idle"
  /\ \E paper_id \in 1..MaxHandlers :
       handlers' = [handlers EXCEPT ![t] = [pc |-> "insert_feedback",
                                            questions |-> << >>,
                                            paper_id |-> paper_id, k |-> 0]]
  /\ UNCHANGED <<db, conn>>
  /\ ConnectionFrame

\* save_paper: the INSERT INTO papers
ExecuteInsertPaper(t) ==
  /\ handlers[t].pc = "insert_paper"
  /\ LET question_list == handlers[t].questions
         inserted == InsertPaper(conn, "text_input_" \o Timestamp(clock) \o ".txt",
                                 question_list, analyze_questions(question_list))
     IN  /\ conn' = inserted.view
         /\ handlers' = [handlers EXCEPT ![t].pc = "insert_question",
                                         ![t].paper_id = inserted.paper_id,
                                         ![t].k = 1]
  /\ UNCHANGED db
  /\ ConnectionFrame

\* save_paper: one turn of its loop over analysis['question_details']; an
\* execute that raises ends the handler with status 500 and leaves the
\* transaction open
ExecuteInsertQuestion(t) ==
  /\ handlers[t].pc = "insert_question"
  /\ LET details == analyze_questions(handlers[t].questions).question_details
         detail == details[handlers[t].k]
     IN  IF Utf8Encodable(detail.text)
         THEN /\ conn' = InsertQuestion(conn, handlers[t].paper_id, detail)
              /\ handlers' = [handlers EXCEPT
                                ![t].pc = IF handlers[t].k = Len(details)
                                          THEN "commit" ELSE "insert_question",
                                ![t].k = @ + 1]
         ELSE /\ conn' = conn
              /\ handlers' = [handlers EXCEPT ![t].pc = "raised"]
  /\ UNCHANGED db
  /\ ConnectionFrame

\* save_feedback: the INSERT INTO feedback
ExecuteInsertFeedback(t) ==
  /\ handlers[t].pc = "insert_feedback"
  /\ conn' = [conn EXCEPT !.feedback =
                Append(@, [ id |-> NextRowId(conn.feedback),
                            paper_id |-> handlers[t].paper_id,
                            feedback_data |-> "{}",
                            rating |-> 5,
                            comments |-> "" ])]
  /\ handlers' = [handlers EXCEPT ![t].pc = "commit"]
  /\ UNCHANGED db
  /\ ConnectionFrame

\* conn.commit() of save_paper or save_feedback: everything the connection
\* has written becomes the committed database
Commit(t) ==
  /\ handlers[t].pc = "commit"
  /\ db' = conn
  /\ handlers' = [handlers EXCEPT ![t].pc = "returned"]
  /\ UNCHANGED conn
  /\ ConnectionFrame

NextConnection ==
  \/ \E t \in Handlers : ReceiveAnalyze(t)
  \/ \E t \in Handlers : ReceiveFeedback(t)
  \/ \E t \in Handlers : ExecuteInsertPaper(t)
  \/ \E t \in Handlers : ExecuteInsertQuestion(t)
  \/ \E t \in Handlers : ExecuteInsertFeedback(t)
  \/ \E t \in Handlers : Commit(t)

SpecConnection == InitConnection /\ [][NextConnection]_vars

(***************************************************************************)
(* Properties of the engine                                                *)
(***************************************************************************)

\* the records of the analysis, none before analyze_questions has returned
Details == IF analysis = << >> THEN << >> ELSE analysis[1].question_details

DetailSet == {Details[k] : k \in 1..Len(Details)}

\* sum of the values of a distribution dict
SumDist(dist, keys) == SumSeq([i \in 1..Len(keys) |-> dist[keys[i]]])

\* some tier other than the returned one has the same score as it
TiedFor(keys, scores, winner) == \E i \in 1..Len(keys) : keys[i] # winner /\ scores[keys[i]] = scores[winner]

\* C1: in every result of analyze_questions (the empty input included) the
\* cognitive-level distribution has exactly the six levels as keys, the
\* difficulty distribution exactly Easy, Medium and Hard, and the two sums of
\* counts, total_questions and the number of detail records are all equal.
C1_DistributionTotals ==
  analysis # << >> =>
    LET r == analysis[1]
    IN  /\ DOMAIN r.blooms_distribution =
             {"Knowledge", "Comprehension", "Application", "Analysis", "Synthesis", "Evaluation"}
        /\ DOMAIN r.difficulty_distribution = {"Easy", "Medium", "Hard"}
        /\ SumDist(r.blooms_distribution, BloomsLevels) = r.total_questions
        /\ SumDist(r.difficulty_distribution, DifficultyLevels) = r.total_questions
        /\ Len(r.question_details) = r.total_questions
        /\ r.total_questions = Len(questions)

\* a batch of three questions falling on at least two levels and two tiers
C1_Witness ==
  /\ analysis # << >>
  /\ analysis[1].total_questions = 3
  /\ \E l \in DOMAIN analysis[1].blooms_distribution : analysis[1].blooms_distribution[l] = 2
  /\ \E t \in DOMAIN analysis[1].difficulty_distribution : analysis[1].difficulty_distribution[t] = 1

\* C2: generate_suggestions on the analysis of the empty question sequence
\* returns the empty list.
C2_EmptyInputNoSuggestions ==
  (suggestions # << >> /\ analysis[1].total_questions = 0) => suggestions[1] = << >>

\* C3: when total_questions is 0, calculate_overall_score returns score 0,
\* grade N/A and the feedback "No questions to analyze", evaluates none of the
\* three component scores and does not raise.
C3_EmptyPaperScore ==
  (score # << >> /\ analysis[1].total_questions = 0) =>
    /\ ~Raised(score[1].result)
    /\ score[1].result =
         [score |-> Int2F(0), grade |-> "N/A", feedback |-> "No questions to analyze"]
    /\ score[1].evaluated = {}

\* the empty paper has been scored
C3_Witness == score # << >> /\ questions = << >> /\ analysis[1].total_questions = 0

\* the word-count bonus as the claim C5 words it
C5_BonusTier(wc) == IF wc > 20 THEN "Hard" ELSE IF wc >= 11 /\ wc <= 20 THEN "Medium" ELSE "Easy"

\* keyword hits plus the single word-count bonus
C5_CombinedScores(text) ==
  LET kw == DifficultyKeywordScores(text)
  IN  [t \in {"Easy", "Medium", "Hard"} |->
         kw[t] + (IF t = C5_BonusTier(WordCount(text)) THEN 1 ELSE 0)]

\* the position of a tier in the order Easy, Medium, Hard
TierIndex(t) == CHOOSE i \in 1..Len(DifficultyLevels) : DifficultyLevels[i] = t

\* C5 as stated: the returned tier has the maximal combined score, and on a
\* tie it is the last maximal tier in the order Easy, Medium, Hard.
C5_LastMaximalTier ==
  \A d \in DetailSet :
    LET sc == C5_CombinedScores(d.text)
    IN  /\ \A t \in DOMAIN sc : sc[t] <= sc[d.difficulty]
        /\ \A t \in DOMAIN sc : sc[t] = sc[d.difficulty] => TierIndex(t) <= TierIndex(d.difficulty)

\* C5 amended: the returned tier has the maximal combined score, and on a tie
\* it is the first maximal tier in the order Easy, Medium, Hard.
C5_FirstMaximalTier ==
  \A d \in DetailSet :
    LET sc == C5_CombinedScores(d.text)
    IN  /\ \A t \in DOMAIN sc : sc[t] <= sc[d.difficulty]
        /\ \A t \in DOMAIN sc : sc[t] = sc[d.difficulty] => TierIndex(d.difficulty) <= TierIndex(t)

\* a question on which Medium and Hard tie for the maximum, above Easy
C5_Witness ==
  \E d \in DetailSet :
    LET sc == C5_CombinedScores(d.text)
    IN  sc["Medium"] = sc["Hard"] /\ sc["Easy"] < sc["Medium"] /\ d.difficulty = "Medium"

\* the position of a level in the canonical order
LevelIndex(l) == CHOOSE i \in 1..Len(BloomsLevels) : BloomsLevels[i] = l

\* C6: the returned cognitive level has the highest keyword-hit count; on a
\* tie for the highest nonzero count it is the first of the tied levels in
\* the canonical order; when every level scores zero it is Knowledge.
C6_FirstMaximalLevel ==
  \A d \in DetailSet :
    LET sc == BloomsScores(d.text)
    IN  /\ \A l \in DOMAIN sc : sc[l] <= sc[d.blooms_level]
        /\ \A l \in DOMAIN sc :
             sc[l] = sc[d.blooms_level] => LevelIndex(d.blooms_level) <= LevelIndex(l)
        /\ (\A l \in DOMAIN sc : sc[l] = 0) => d.blooms_level = "Knowledge"

\* a question on which Analysis and Evaluation tie for a nonzero maximum
C6_Witness ==
  \E d \in DetailSet :
    LET sc == BloomsScores(d.text)
    IN  /\ sc["Analysis"] = sc["Evaluation"] /\ sc["Analysis"] > 0
        /\ \A l \in DOMAIN sc : sc[l] <= sc["Analysis"]
        /\ d.blooms_level = "Analysis"

\* the analysis of the one-question input of scenario A has returned
ScenarioA == questions = << "Define the term algorithm." >> /\ analysis # << >>

\* C7 as stated: scenario A yields Knowledge, Easy, not ambiguous and a
\* quality score of 100.0.
C7_ScenarioA_Score100 ==
  ScenarioA =>
    /\ Details[1].blooms_level = "Knowledge"
    /\ Details[1].difficulty = "Easy"
    /\ Details[1].ambiguous = FALSE
    /\ Details[1].quality_score = 100

\* C7 amended: scenario A yields Knowledge, Easy, not ambiguous and a quality
\* score of 85.0, the question having four words.
C7_ScenarioA_Score85 ==
  ScenarioA =>
    /\ Details[1].blooms_level = "Knowledge"
    /\ Details[1].difficulty = "Easy"
    /\ Details[1].ambiguous = FALSE
    /\ Details[1].word_count = 4
    /\ Details[1].quality_score = 85

C7_Witness == ScenarioA /\ Len(Details) = 1

\* 1 when the condition holds, else 0
Ind(b) == IF b THEN 1 ELSE 0

\* C8: every record's quality score is max(0, 100 - 20*[ambiguous]
\* - 10*(number of issues) - 15*[word_count < 5] - 10*[word_count > 40]), and
\* "Define DNA." scores 85.
C8_QuestionScoreFormula ==
  \A d \in DetailSet :
    LET wc == WordCount(d.text)
        amb == detect_ambiguity(d.text).is_ambiguous
        n == Len(check_quality_issues(d.text))
        v == 100 - 20 * Ind(amb) - 10 * n - 15 * Ind(wc < 5) - 10 * Ind(wc > 40)
    IN  /\ d.quality_score = (IF v < 0 THEN 0 ELSE v)
        /\ d.text = "Define DNA." => d.quality_score = 85

\* an ambiguous question of more than 40 words with a quality issue
C8_Witness ==
  \E d \in DetailSet :
    /\ d.ambiguous /\ d.word_count > 40
    /\ Len(check_quality_issues(d.text)) = 1
    /\ d.quality_score = 60

\* C9: every record's quality_score lies in [0,100] and its cognitive_load
\* in [0,10] (held in tenths).
C9_ScoreAndLoadRanges ==
  \A d \in DetailSet :
    /\ 0 <= d.quality_score /\ d.quality_score <= 100
    /\ 0 <= d.cognitive_load /\ d.cognitive_load <= 100

\* a question long enough for the cap of the load to apply
C9_Witness == \E d \in DetailSet : d.word_count > 100 /\ d.cognitive_load = 100

\* C10: a question without tokens is analyzed like any other and yields
\* word_count 0, Knowledge, Easy, not ambiguous, no quality issue,
\* cognitive_load 0 and quality_score 85.
C10_EmptyQuestionDefaults ==
  /\ analysis # << >> => Len(Details) = Len(questions)
  /\ \A k \in 1..Len(Details) :
       (\A i \in 1..Len(questions[k]) : IsSpace(Char(questions[k], i))) =>
         /\ Details[k].text = questions[k]
         /\ Details[k].word_count = 0
         /\ Details[k].blooms_level = "Knowledge"
         /\ Details[k].difficulty = "Easy"
         /\ Details[k].ambiguous = FALSE
         /\ Details[k].cognitive_load = 0
         /\ Details[k].quality_score = 85
         /\ \A j \in 1..Len(analysis[1].quality_issues) :
              analysis[1].quality_issues[j].question_number # k

\* the empty string has been analyzed
C10_Witness == analysis # << >> /\ questions = << "" >> /\ Len(Details) = 1

\* the text of scenario B
ScenarioBText ==
  "Analyze the various causes of inflation and evaluate several policy responses."

\* the analysis of the one-question input of scenario B has returned
ScenarioB == questions = << ScenarioBText >> /\ analysis # << >>

\* the position of a marker in ambiguity_patterns
MarkerIndex(ind) == CHOOSE i \in 1..Len(ambiguity_patterns) : ambiguity_patterns[i] = ind

\* C11: scenario B yields Analysis, with Analysis and Evaluation tied at one
\* hit each and no level above them, and the question is ambiguous with the
\* markers "various" and "several"; the markers of every ambiguous question
\* are listed in lexicon order, each once.
C11_ScenarioB_AnalysisAmbiguous ==
  /\ ScenarioB =>
       LET sc == BloomsScores(questions[1])
       IN  /\ sc["Analysis"] = 1 /\ sc["Evaluation"] = 1
           /\ \A l \in DOMAIN sc : sc[l] <= 1
           /\ Details[1].blooms_level = "Analysis"
           /\ Details[1].ambiguous = TRUE
           /\ Len(analysis[1].ambiguous_questions) = 1
           /\ analysis[1].ambiguous_questions[1].question_number = 1
           /\ analysis[1].ambiguous_questions[1].indicators = << "various", "several" >>
  /\ analysis # << >> =>
       \A k \in 1..Len(analysis[1].ambiguous_questions) :
         LET found == analysis[1].ambiguous_questions[k].indicators
         IN  /\ found # << >>
             /\ \A i \in 1..Len(found) : Contains(lower(questions[analysis[1].ambiguous_questions[k].question_number]), found[i])
             /\ \A i, j \in 1..Len(found) :
                  i < j => MarkerIndex(found[i]) < MarkerIndex(found[j])

\* scenario B has been analyzed and its question reported as ambiguous
C11_Witness ==
  /\ ScenarioB
  /\ Len(Details) = 1
  /\ Len(analysis[1].ambiguous_questions) = 1
  /\ Len(analysis[1].ambiguous_questions[1].indicators) = 2

\* the suggestions of one category, in the order of the returned list
OfCategory(list, category) == SelectSeq(list, LAMBDA s : s.category = category)

\* the suggestions of one type, in the order of the returned list
OfType(list, type) == SelectSeq(list, LAMBDA s : s.type = type)

\* the keys of a suggestion other than its message
WithoutMessage(s) == [key \in DOMAIN s \ {"message"} |-> s[key]]

\* C12: for an analysis with total > 0 the list holds exactly one
\* missing_level suggestion of high priority for each level with count 0,
\* exactly one low_representation suggestion of medium priority for each
\* level with a nonzero count below 10% of the total, no cognitive-level
\* suggestion for any other level, and these in canonical level order; ten
\* questions none of which is at Synthesis or Evaluation give exactly the two
\* missing_level suggestions, Synthesis before Evaluation.
C12_CognitiveLevelSuggestions ==
  (suggestions # << >> /\ analysis[1].total_questions > 0) =>
    LET total == analysis[1].total_questions
        dist == analysis[1].blooms_distribution
        found == OfCategory(suggestions[1], "blooms_taxonomy")
        got == [i \in 1..Len(found) |-> WithoutMessage(found[i])]
        about(l) == SelectSeq(got, LAMBDA s : s.level = l)
        missing(l) == [type |-> "missing_level", priority |-> "high",
                       category |-> "blooms_taxonomy", level |-> l]
    IN  /\ \A l \in DOMAIN dist :
             about(l) = IF dist[l] = 0 THEN << missing(l) >>
                        ELSE IF dist[l] * 100 < 10 * total
                        THEN << [type |-> "low_representation", priority |-> "medium",
                                 category |-> "blooms_taxonomy", level |-> l] >>
                        ELSE << >>
        /\ \A i, j \in 1..Len(got) : i < j => LevelIndex(got[i].level) < LevelIndex(got[j].level)
        /\ ( /\ total = 10
             /\ \A l \in DOMAIN dist : dist[l] = 0 <=> l \in {"Synthesis", "Evaluation"} )
             => got = << missing("Synthesis"), missing("Evaluation") >>

\* a paper of more than ten questions with a missing level, an
\* under-represented level after it and a level at exactly one tenth
C12_Witness ==
  /\ suggestions # << >>
  /\ analysis[1].total_questions > 10
  /\ \E i, j \in 1..Len(suggestions[1]) :
       /\ i < j
       /\ suggestions[1][i].type = "missing_level"
       /\ suggestions[1][j].type = "low_representation"

\* scenario C: ten questions, none at Synthesis or Evaluation, every other
\* level present
C12_WitnessScenarioC ==
  /\ suggestions # << >>
  /\ analysis[1].total_questions = 10
  /\ \A l \in DOMAIN analysis[1].blooms_distribution :
       analysis[1].blooms_distribution[l] = 0 <=> l \in {"Synthesis", "Evaluation"}

\* the group of a suggestion: 1 cognitive level, 2 difficulty, 3 ambiguity,
\* 4 quality issue
GroupOf(s) ==
  IF s.category = "blooms_taxonomy" THEN 1
  ELSE IF s.category = "difficulty" THEN 2
  ELSE IF s.type = "ambiguity" THEN 3
  ELSE 4

\* the ordinals of the questions that satisfy the test, in increasing order
OrdinalsWhere(Test(_)) == SelectSeq([k \in 1..Len(questions) |-> k], Test)

\* C13: the suggestion list is the cognitive-level suggestions, then the
\* difficulty suggestions in the order Easy, Medium, Hard, then one ambiguity
\* suggestion per ambiguous question in increasing ordinal, then one
\* quality_issue suggestion per question with a quality issue in increasing
\* ordinal; a question flagged for both has one suggestion of each kind, and
\* the length of the list is the sum of the sizes of the four groups.
C13_SuggestionOrder ==
  suggestions # << >> =>
    LET list == suggestions[1]
        cognitive == OfCategory(list, "blooms_taxonomy")
        difficulty == OfCategory(list, "difficulty")
        ambiguity == OfType(list, "ambiguity")
        quality == OfType(list, "quality_issue")
        ambiguous_ordinals ==
          OrdinalsWhere(LAMBDA k : detect_ambiguity(questions[k]).is_ambiguous)
        issue_ordinals == OrdinalsWhere(LAMBDA k : check_quality_issues(questions[k]) # << >>)
    IN  /\ list = cognitive \o difficulty \o ambiguity \o quality
        /\ \A i \in 1..Len(list) : GroupOf(list[i]) \in 1..4
        /\ \A i, j \in 1..Len(list) : i < j => GroupOf(list[i]) <= GroupOf(list[j])
        /\ \A i, j \in 1..Len(difficulty) :
             i < j => TierIndex(difficulty[i].level) < TierIndex(difficulty[j].level)
        /\ [i \in 1..Len(ambiguity) |-> ambiguity[i].question_number] = ambiguous_ordinals
        /\ [i \in 1..Len(quality) |-> quality[i].question_number] = issue_ordinals
        /\ Len(list) = Len(cognitive) + Len(difficulty)
                         + Len(ambiguous_ordinals) + Len(issue_ordinals)

\* all four groups are present, two questions are ambiguous and the second
\* of them also has a quality issue
C13_Witness ==
  /\ suggestions # << >>
  /\ \A g \in 1..4 : \E i \in 1..Len(suggestions[1]) : GroupOf(suggestions[1][i]) = g
  /\ \E i, j, k \in 1..Len(suggestions[1]) :
       /\ i < j /\ j < k
       /\ suggestions[1][i].type = "ambiguity"
       /\ suggestions[1][j].type = "ambiguity"
       /\ suggestions[1][k].type = "quality_issue"
       /\ suggestions[1][j].question_number = suggestions[1][k].question_number

\* the classification fields of a record: all but its ordinal
Classification(d) ==
  [ text |-> d.text, blooms_level |-> d.blooms_level, difficulty |-> d.difficulty,
    ambiguous |-> d.ambiguous, cognitive_load |-> d.cognitive_load,
    word_count |-> d.word_count, quality_score |-> d.quality_score ]

\* C14: two records of equal text have equal classification fields; a second
\* call on the same sequence returns an identical result; a call on the
\* questions in another order returns the same records in that order, the
\* ordinals apart, and the same two distributions.
C14_OrderIndependent ==
  /\ \A d, e \in DetailSet : d.text = e.text => Classification(d) = Classification(e)
  /\ reanalysis # << >> =>
       LET order == reanalysis[1].order
           again == reanalysis[1].result
       IN  /\ (\A k \in DOMAIN order : order[k] = k) => again = analysis[1]
           /\ Len(again.question_details) = Len(Details)
           /\ \A k \in 1..Len(again.question_details) :
                /\ again.question_details[k].number = k
                /\ Classification(again.question_details[k]) = Classification(Details[order[k]])
           /\ again.blooms_distribution = analysis[1].blooms_distribution
           /\ again.difficulty_distribution = analysis[1].difficulty_distribution
           /\ again.total_questions = analysis[1].total_questions

\* three questions of three different classifications were analyzed again
\* in reverse order
C14_Witness ==
  /\ reanalysis # << >>
  /\ reanalysis[1].order = << 3, 2, 1 >>
  /\ Details[1].ambiguous /\ ~Details[2].ambiguous /\ ~Details[3].ambiguous
  /\ Details[2].blooms_level # Details[3].blooms_level

\* the same three questions were analyzed again in the same order
C14_WitnessSameOrder ==
  /\ reanalysis # << >>
  /\ reanalysis[1].order = << 1, 2, 3 >>
  /\ reanalysis[1].result = analysis[1]
  /\ Cardinality(DetailSet) = 3

\* the grade the thresholds give to a score
GradeOf(s) ==
  IF FLe(Int2F(90), s) THEN "Excellent"
  ELSE IF FLe(Int2F(75), s) THEN "Good"
  ELSE IF FLe(Int2F(60), s) THEN "Fair"
  ELSE "Needs Improvement"

\* the fixed sentence of a grade
FeedbackOf(grade) ==
  IF grade = "Excellent"
  THEN "Excellent question paper with comprehensive cognitive level coverage and good balance."
  ELSE IF grade = "Good"
  THEN "Good question paper. Minor improvements suggested for better balance."
  ELSE IF grade = "Fair"
  THEN "Fair question paper. Several improvements needed for comprehensive coverage."
  ELSE "Significant improvements needed. Review suggestions carefully."

\* a paper with at least one question has been scored
Scored == score # << >> /\ analysis[1].total_questions > 0

\* C15: for a paper with at least one question the returned grade is the
\* one the thresholds 90, 75 and 60 give to the returned (rounded) score,
\* and the feedback is the fixed sentence of that grade.
C15_GradeMatchesReportedScore ==
  Scored =>
    /\ score[1].result.grade = GradeOf(score[1].result.score)
    /\ score[1].result.feedback = FeedbackOf(GradeOf(score[1].result.score))

\* the feedback is always the fixed sentence of the returned grade
C15_FeedbackMatchesGrade ==
  Scored => score[1].result.feedback = FeedbackOf(score[1].result.grade)

\* the cognitive-balance score of an analysis in exact arithmetic
ExactBloomsScore(an) ==
  LET total == an.total_questions
      present == Cardinality({l \in DOMAIN an.blooms_distribution : an.blooms_distribution[l] > 0})
      pct == [i \in 1..6 |-> Frac(an.blooms_distribution[BloomsLevels[i]] * 100, total)]
  IN  FMax(Int2F(0), FSub(FAdd(Frac(present * 50, 6), Int2F(50)),
                          FSub(FMaxSeq(pct), FMinSeq(pct))))

\* the difficulty-balance score of an analysis in exact arithmetic
ExactDifficultyScore(an) ==
  LET total == an.total_questions
      off(t, ideal) == FAbs(FSub(Frac(an.difficulty_distribution[t] * 100, total), Int2F(ideal)))
  IN  FMax(Int2F(0),
           FSub(Int2F(100),
                FMul(Frac(1, 2), FAdd(off("Easy", 30), FAdd(off("Medium", 40), off("Hard", 30))))))

\* the quality score of an analysis in exact arithmetic
ExactQualityScore(an) ==
  LET total == an.total_questions
  IN  FMax(Int2F(0),
           FSub(FSub(Int2F(100), FMul(Frac(1, 2), Frac(Len(an.ambiguous_questions) * 100, total))),
                FMul(Frac(1, 2), Frac(Len(an.quality_issues) * 100, total))))

\* the reported number is the exact one rounded to 2 decimals: a multiple
\* of 1/100 at most 1/200 away from it
RoundedTo2(reported, exact) ==
  /\ 100 % reported.den = 0
  /\ FLe(FAbs(FSub(reported, exact)), Frac(1, 200))

InPercentRange(x) == FLe(Int2F(0), x) /\ FLe(x, Int2F(100))

\* C16: for an analysis with at least one question the overall score is
\* 0.4 * cognitive balance + 0.3 * difficulty balance + 0.3 * quality,
\* rounded to 2 decimals, and the overall score and the three component
\* scores lie in [0,100].
C16_WeightedOverallScore ==
  Scored =>
    LET an == analysis[1]
        r == score[1].result
        weighted == FAdd(FMul(Frac(4, 10), ExactBloomsScore(an)),
                         FAdd(FMul(Frac(3, 10), ExactDifficultyScore(an)),
                              FMul(Frac(3, 10), ExactQualityScore(an))))
    IN  /\ ~Raised(r)
        /\ RoundedTo2(r.score, weighted)
        /\ InPercentRange(r.score)
        /\ InPercentRange(r.blooms_score)
        /\ InPercentRange(r.difficulty_score)
        /\ InPercentRange(r.quality_score)

\* a scored paper whose three component scores differ from one another
C16_Witness ==
  /\ Scored
  /\ analysis[1].total_questions > 10
  /\ score[1].result.blooms_score # score[1].result.difficulty_score
  /\ score[1].result.difficulty_score # score[1].result.quality_score
  /\ FLt(score[1].result.quality_score, Int2F(100))
  /\ FLt(Int2F(0), score[1].result.blooms_score)

\* C17: the cognitive-balance score is max(0, (number of levels with a
\* question) / 6 * 50 + 50 - (max_pct - min_pct)), rounded to 2 decimals
\* when returned, the percentages being taken over all six levels, so that a
\* level without question makes min_pct 0.
C17_CognitiveBalanceScore ==
  Scored =>
    LET dist == analysis[1].blooms_distribution
        total == analysis[1].total_questions
        present == Cardinality({l \in DOMAIN dist : dist[l] > 0})
        largest == CHOOSE c \in {dist[l] : l \in DOMAIN dist} : \A l \in DOMAIN dist : dist[l] <= c
        smallest == CHOOSE c \in {dist[l] : l \in DOMAIN dist} : \A l \in DOMAIN dist : c <= dist[l]
        sum == FSub(FAdd(Frac(present * 50, 6), Int2F(50)),
                    FSub(Frac(largest * 100, total), Frac(smallest * 100, total)))
    IN  /\ RoundedTo2(score[1].result.blooms_score, FMax(Int2F(0), sum))
        /\ present < 6 => smallest = 0

\* a scored paper with a missing level, two levels of different counts and a
\* positive cognitive-balance score
C17_Witness ==
  /\ Scored
  /\ \E l \in DOMAIN analysis[1].blooms_distribution : analysis[1].blooms_distribution[l] = 0
  /\ Cardinality({analysis[1].blooms_distribution[l] :
                    l \in DOMAIN analysis[1].blooms_distribution}) >= 3
  /\ FLt(Int2F(0), score[1].result.blooms_score)

\* a scored paper all of whose questions are at one level: the sum is
\* negative and the score is 0
C17_WitnessClamped ==
  /\ Scored
  /\ Cardinality({l \in DOMAIN analysis[1].blooms_distribution :
                    analysis[1].blooms_distribution[l] > 0}) = 1
  /\ score[1].result.blooms_score = Int2F(0)

\* C18: the difficulty-balance score is max(0, 100 - 0.5 * (|easy_pct - 30|
\* + |medium_pct - 40| + |hard_pct - 30|)), rounded to 2 decimals when
\* returned, each percentage being the tier's count / total * 100.
C18_DifficultyBalanceScore ==
  Scored =>
    LET dist == analysis[1].difficulty_distribution
        total == analysis[1].total_questions
        pct(t) == Frac(dist[t] * 100, total)
        off == FAdd(FAbs(FSub(pct("Easy"), Int2F(30))),
                    FAdd(FAbs(FSub(pct("Medium"), Int2F(40))),
                         FAbs(FSub(pct("Hard"), Int2F(30)))))
    IN  RoundedTo2(score[1].result.difficulty_score,
                   FMax(Int2F(0), FSub(Int2F(100), FMul(Frac(1, 2), off))))

\* a scored paper with questions of all three tiers, Medium and Hard in
\* different numbers
C18_Witness ==
  /\ Scored
  /\ \A t \in {"Easy", "Medium", "Hard"} : analysis[1].difficulty_distribution[t] > 0
  /\ analysis[1].difficulty_distribution["Medium"] # analysis[1].difficulty_distribution["Hard"]
  /\ FLt(score[1].result.difficulty_score, Int2F(100))

\* C19: whatever the interleaving of the calls of several threads on the
\* shared analyzer, its lexicon tables and every call's argument stay as
\* they were, the records a call has built so far are those of its own
\* questions, and analyze_questions, generate_suggestions and
\* calculate_overall_score return what they return when run alone.
C19_CallsDoNotInterfere ==
  /\ analyzer = NewAnalyzer
  /\ \A t \in DOMAIN threads :
       LET th == threads[t]
           alone == analyze_questions(th.given)
       IN  /\ th.arg = th.given
           /\ th.pc = "loop" =>
                /\ th.results # << >>
                /\ th.results[1].question_details = SubSeq(alone.question_details, 1, th.i - 1)
           /\ th.returned # << >> => th.returned[1] = alone
           /\ th.suggestions # << >> => th.suggestions[1] = generate_suggestions(alone)
           /\ th.score # << >> => th.score[1] = calculate_overall_score(alone)

\* one thread has its results back while the other, called with another
\* list, is between two iterations of its loop
C19_Witness ==
  /\ DOMAIN threads # {}
  /\ \E t, u \in DOMAIN threads :
       /\ threads[t].pc = "done"
       /\ threads[u].pc = "loop" /\ threads[u].i = 2 /\ Len(threads[u].arg) = 2
       /\ threads[t].given # threads[u].given
       /\ threads[t].score # << >>

\* two threads are inside the loop of analyze_questions at the same time
C19_WitnessOverlap ==
  /\ DOMAIN threads # {}
  /\ \E t, u \in DOMAIN threads :
       /\ t # u
       /\ threads[t].pc = "loop" /\ threads[t].i = 2
       /\ threads[u].pc = "loop" /\ threads[u].i = 2
       /\ threads[t].given # threads[u].given

\* the issues analyze_questions lists for the question of that ordinal
IssuesOfOrdinal(result, ordinal) ==
  LET entries == SelectSeq(result.quality_issues,
                           LAMBDA entry : entry.question_number = ordinal)
  IN  IF entries = << >> THEN << >> ELSE entries[1].issues

\* the ordinals a list of analyze_questions names, in the order of the list
ListedOrdinals(entries) == [k \in DOMAIN entries |-> entries[k].question_number]

StrictlyIncreasing(ordinals) ==
  \A j, k \in DOMAIN ordinals : j < k => ordinals[j] < ordinals[k]

\* C25: in a result of analyze_questions the ambiguous_questions list names
\* exactly the ordinals of the records whose ambiguous flag is true and the
\* quality_issues list exactly the ordinals of the questions with at least
\* one detected issue, both in strictly increasing order (so no ordinal
\* twice), and every entry carries a non-empty indicator or issue list.
C25_ListsMatchRecords ==
  analysis # << >> =>
    LET ambiguous == analysis[1].ambiguous_questions
        flawed == analysis[1].quality_issues
    IN  /\ ListedOrdinals(ambiguous) = OrdinalsWhere(LAMBDA k : Details[k].ambiguous)
        /\ ListedOrdinals(flawed)
             = OrdinalsWhere(LAMBDA k : check_quality_issues(questions[k]) # << >>)
        /\ StrictlyIncreasing(ListedOrdinals(ambiguous))
        /\ StrictlyIncreasing(ListedOrdinals(flawed))
        /\ \A k \in DOMAIN ambiguous : ambiguous[k].indicators # << >>
        /\ \A k \in DOMAIN flawed : flawed[k].issues # << >>

\* a paper of three questions analysed: two of them ambiguous, two of them
\* with a quality issue, and one question in neither list
C25_Witness ==
  /\ analysis # << >>
  /\ Len(Details) = 3
  /\ Len(analysis[1].ambiguous_questions) = 2
  /\ Len(analysis[1].quality_issues) = 2
  /\ \E k \in 1..3 :
       /\ ~Details[k].ambiguous
       /\ IssuesOfOrdinal(analysis[1], k) = << >>

\* the number of commas and semicolons of the text
SeparatorCount(text) ==
  Cardinality({i \in 1..Len(text) : Char(text, i) \in {",", ";"}})

\* C21: the complex-sentence issue is reported for exactly the questions
\* whose text has three or more commas or semicolons, adjacent or not.
C21_ComplexSentenceCountsSeparators ==
  \A k \in 1..Len(Details) :
    (\E i \in DOMAIN IssuesOfOrdinal(analysis[1], k) :
        IssuesOfOrdinal(analysis[1], k)[i] = "complex sentence")
      <=> SeparatorCount(Details[k].text) >= 3

\* what the code does: the issue is reported for exactly the questions with
\* three or more separators in a row
C21_ComplexSentenceAdjacentSeparators ==
  \A k \in 1..Len(Details) :
    (\E i \in DOMAIN IssuesOfOrdinal(analysis[1], k) :
        IssuesOfOrdinal(analysis[1], k)[i] = "complex sentence")
      <=> \E j \in 1..(Len(Details[k].text) - 2) :
            /\ SeparatorCount(SubSeq(Details[k].text, j, j + 2)) = 3

\* the number of places of the lower-cased text where a keyword of the tier
\* starts, each keyword counted up to cap times
TierKeywordCount(question_lower, tier, cap) ==
  SumSeq([k \in 1..Len(difficulty_keywords[tier]) |->
            Min(cap, Occurrences(question_lower, difficulty_keywords[tier][k]))])

\* the keyword scores of the question are its keyword counts under the cap
KeywordScoresAre(text, cap) ==
  \E question_lower \in {lower(text)} : \E kw \in {DifficultyKeywordScores(text)} :
    \A tier \in DOMAIN difficulty_keywords :
      kw[tier] = TierKeywordCount(question_lower, tier, cap)

\* C22 as stated: each tier's keyword score is the number of raw substring
\* occurrences of the tier's keywords in the lower-cased question, a keyword
\* that occurs k times contributing k.
C22_KeywordScoreCountsOccurrences ==
  \A k \in 1..Len(Details) : KeywordScoresAre(Details[k].text, Len(Details[k].text))

\* C22 amended: each tier's keyword score is the number of the tier's
\* keywords that occur at least once as a raw substring of the lower-cased
\* question, word boundaries ignored, and the returned tier is the first
\* maximal one of these scores plus the word-count bonus.
C22_KeywordScoreCountsKeywords ==
  \A k \in 1..Len(Details) :
    /\ KeywordScoresAre(Details[k].text, 1)
    /\ \E question_lower \in {lower(Details[k].text)} :
         Details[k].difficulty
           = max_key(DifficultyLevels,
                     [tier \in DOMAIN difficulty_keywords |->
                        TierKeywordCount(question_lower, tier, 1)
                          + (IF tier = LengthTier(Details[k].word_count) THEN 1 ELSE 0)])

\* a question where a Hard keyword occurs twice and counts once: the tie with
\* the Easy length bonus goes to Easy
C22_Witness ==
  /\ analysis # << >>
  /\ \E k \in 1..Len(Details) :
       /\ Occurrences(lower(Details[k].text), "analyze") = 2
       /\ Details[k].word_count = 2
       /\ DifficultyKeywordScores(Details[k].text)["Hard"] = 1
       /\ Details[k].difficulty = "Easy"

\* a question where two Easy keywords are found inside longer words
C22_WitnessInsideWord ==
  /\ analysis # << >>
  /\ \E k \in 1..Len(Details) :
       /\ Details[k].text = "Redefine somewhat is known"
       /\ DifficultyKeywordScores(Details[k].text)["Easy"] = 2

\* C23: for every question the command-line moderator's copy of the
\* classifier assigns the cognitive level, the difficulty tier and the
\* ambiguity flag the core analyzer assigns.
C23_ModeratorAgreesWithAnalyzer ==
  (analysis # << >> /\ moderated # << >>) =>
    \A k \in 1..Len(Details) :
      /\ moderated[1].question_details[k].blooms_level = Details[k].blooms_level
      /\ moderated[1].question_details[k].difficulty = Details[k].difficulty
      /\ moderated[1].question_details[k].ambiguous = Details[k].ambiguous

\* the two copies see the same questions and keep one record per question
C23_SameQuestions ==
  (analysis # << >> /\ moderated # << >>) =>
    /\ moderated[1].total_questions = analysis[1].total_questions
    /\ \A k \in 1..Len(Details) : moderated[1].question_details[k].text = Details[k].text

\* the titles of the sections of a report, in the order of the layout
SectionTitles ==
  << "AI-BASED QUESTION PAPER MODERATION REPORT",
     "OVERALL ASSESSMENT",
     "BLOOM'S TAXONOMY DISTRIBUTION",
     "DIFFICULTY DISTRIBUTION",
     "AMBIGUOUS QUESTIONS DETECTED",
     "QUALITY ISSUES",
     "RECOMMENDATIONS",
     "End of Report" >>

\* the lines of the report that are the title
TitlePositions(lines, title) == {i \in 1..Len(lines) : lines[i] = title}

\* the layout of the rendered report, given whether it must have a
\* recommendations section
ReportLayoutHolds(with_recommendations) ==
  LET lines == report[1].lines
      at(title) == TitlePositions(lines, title)
      present(title) == at(title) # {}
      expected(title) ==
        CASE title = "AMBIGUOUS QUESTIONS DETECTED" -> analysis[1].ambiguous_questions # << >>
          [] title = "QUALITY ISSUES" -> analysis[1].quality_issues # << >>
          [] title = "RECOMMENDATIONS" -> with_recommendations
          [] OTHER -> TRUE
  IN  /\ \A k \in DOMAIN SectionTitles :
           /\ present(SectionTitles[k]) <=> expected(SectionTitles[k])
           /\ Cardinality(at(SectionTitles[k])) <= 1
      /\ \A j, k \in DOMAIN SectionTitles :
           j < k => \A a \in at(SectionTitles[j]) : \A b \in at(SectionTitles[k]) : a < b
      /\ \A start \in at("RECOMMENDATIONS") :
           /\ \A i \in 1..Len(suggestions[1]) :
                lines[start + 1 + i]
                  = ToString(i) \o ". ["
                      \o (IF suggestions[1][i].priority = "high" THEN "!" ELSE "i")
                      \o "] " \o suggestions[1][i].message
           /\ lines[start + 2 + Len(suggestions[1])] = ""
           /\ at("End of Report") = {start + 4 + Len(suggestions[1])}

\* C24: the ambiguous-questions and the quality-issues section are in the
\* report exactly when the analysis lists such a question (and the
\* recommendations exactly when there is a suggestion), the sections that
\* are in the report come in the order header, overall assessment,
\* cognitive-level distribution, difficulty distribution, ambiguous
\* questions, quality issues, recommendations, footer, and the
\* recommendations are numbered 1..n in the order of the suggestion list.
C24_ReportSections ==
  report # << >> => ReportLayoutHolds(suggestions[1] # << >>)

\* a report with both listings and numbered recommendations of both
\* priorities
C24_Witness ==
  /\ report # << >>
  /\ analysis[1].ambiguous_questions # << >>
  /\ analysis[1].quality_issues # << >>
  /\ TitlePositions(report[1].lines, "QUALITY ISSUES") # {}
  /\ \E i, j \in 1..Len(suggestions[1]) :
       /\ i < j
       /\ suggestions[1][i].priority = "medium"
       /\ suggestions[1][j].priority = "high"

\* a report without listings, and one without recommendations
C24_WitnessNoListing ==
  /\ report # << >>
  /\ analysis[1].total_questions > 0
  /\ analysis[1].ambiguous_questions = << >>
  /\ analysis[1].quality_issues = << >>
  /\ TitlePositions(report[1].lines, "AMBIGUOUS QUESTIONS DETECTED") = {}

C24_WitnessNoRecommendations ==
  /\ report # << >>
  /\ suggestions[1] = << >>
  /\ TitlePositions(report[1].lines, "RECOMMENDATIONS") = {}

(***************************************************************************)
(* Properties of the web API                                               *)
(***************************************************************************)

\* the last request carried a question set, and the set was empty: a JSON
\* body with "questions": [], or an allowed, readable file without a
\* non-blank line
EmptyQuestionSet ==
  /\ request # << >>
  /\ \/ /\ request.endpoint = "/api/analyze"
        /\ request.data.kind = "questions_list"
        /\ request.data.questions = << >>
     \/ /\ request.endpoint = "/api/upload"
        /\ request.form.has_file
        /\ request.form.filename # ""
        /\ allowed_file(request.form.filename)
        /\ request.form.readable
        /\ QuestionsOfFile(request.form.content) = << >>

\* C4: a request whose question set is empty is answered with a client error
\* (4xx), and the handler has called neither analyze_questions nor save_paper.
C4_EmptyQuestionSetRejected ==
  EmptyQuestionSet =>
    /\ response.status >= 400 /\ response.status <= 499
    /\ \A k \in 1..Len(calls) : calls[k] \notin {"analyze_questions", "save_paper"}

\* the methods of Database the handlers call
DatabaseMethods == {"save_paper", "get_paper", "save_feedback"}

\* C28: whenever a handler performs a database operation, Database.initialize
\* has completed: the tables exist.
C28_InitializedBeforeUse ==
  (\E i \in DOMAIN calls : calls[i] \in DatabaseMethods) => tables_created

\* the application started through api/index.py has answered a request for
\* stored rows with status 500
C28_UninitializedAnswer ==
  /\ ~tables_created
  /\ \E i \in DOMAIN calls : calls[i] \in DatabaseMethods
  /\ response.status = 500

\* the step is POST /api/upload answered with status 400
UploadRejected ==
  /\ handled' = handled + 1
  /\ request'.endpoint = "/api/upload"
  /\ response'.status = 400

\* C29: a POST /api/upload answered 400 leaves the persistent state as it
\* was: no row is added and no file is left in the upload folder.
C29_RejectedUploadChangesNothing ==
  [][UploadRejected => (db' = db /\ uploads' = uploads)]_vars

\* what the code keeps: no row is added, and no file is left by the three
\* answers given before the file is saved
C29_RejectedUploadAddsNoRow ==
  [][UploadRejected =>
       /\ db' = db
       /\ response'.error # "No questions found in file" => uploads' = uploads]_vars

\* a file without questions was uploaded and answered 400, and its copy is
\* in the upload folder
C29_RejectedFileKept ==
  /\ request # << >>
  /\ request.endpoint = "/api/upload"
  /\ response.status = 400
  /\ response.error = "No questions found in file"
  /\ uploads # {}
  /\ db = EmptyDatabase

(***************************************************************************)
(* Properties of the stored papers                                         *)
(***************************************************************************)

\* the last request handled is the GET of the endpoint for the paper
LastRequestGets(endpoint, paper_id) ==
  /\ request # << >>
  /\ request.endpoint = endpoint
  /\ request.paper_id = paper_id

\* the rows are in the order of their question_number
InOrdinalOrder(rows) ==
  \A k \in 1..(Len(rows) - 1) : rows[k].question_number <= rows[k + 1].question_number

\* C20: once a POST /api/analyze or POST /api/upload answered with success and
\* paper id p, every GET /api/papers/p and every GET /api/papers/p/report
\* handled later is answered 200 with the total_questions and the two
\* distributions the POST returned, the question rows of the paper in the
\* order of their ordinal, whatever requests were handled in between
C20_StoredPaperServed ==
  \A k \in DOMAIN issued :
    LET sent == issued[k]
    IN  /\ LastRequestGets("/api/papers/<paper_id>", sent.paper_id) =>
              /\ response.status = 200
              /\ response.paper.total_questions = sent.total_questions
              /\ response.paper.analysis.total_questions = sent.analysis.total_questions
              /\ response.paper.analysis.blooms_distribution
                   = sent.analysis.blooms_distribution
              /\ response.paper.analysis.difficulty_distribution
                   = sent.analysis.difficulty_distribution
              /\ InOrdinalOrder(response.paper.questions)
              /\ \A j \in DOMAIN response.paper.questions :
                   response.paper.questions[j].paper_id = sent.paper_id
        /\ LastRequestGets("/api/papers/<paper_id>/report", sent.paper_id) =>
              /\ response.status = 200
              /\ response.total_questions = sent.total_questions
              /\ response.blooms_distribution = sent.analysis.blooms_distribution
              /\ response.difficulty_distribution = sent.analysis.difficulty_distribution
              /\ \A i \in 1..(Len(response.ambiguous_questions) - 1) :
                   response.ambiguous_questions[i].question_number
                     < response.ambiguous_questions[i + 1].question_number

\* the first paper, of two questions, is fetched after another paper was stored
C20_Witness ==
  /\ LastRequestGets("/api/papers/<paper_id>", 1)
  /\ handled = 3
  /\ Len(issued) = 2
  /\ issued[1].paper_id = 1
  /\ issued[1].total_questions = 2
  /\ issued[2].total_questions # 2
  /\ Len(response.paper.questions) = 2

\* the report of the first paper is fetched after feedback on it was stored
C20_WitnessReport ==
  /\ LastRequestGets("/api/papers/<paper_id>/report", 1)
  /\ handled = 3
  /\ Len(issued) = 1
  /\ Len(db.feedback) = 1
  /\ response.status = 200
  /\ response.total_questions = 1


\* the ids of the stored papers
StoredPaperIds == {db.papers[k].id : k \in DOMAIN db.papers}

\* C26: every row of the questions table and every row of the feedback
\* table references a paper id that is in the papers table; feedback is
\* never stored for a paper id that does not exist.
C26_RowsReferenceStoredPapers ==
  /\ \A k \in DOMAIN db.questions : db.questions[k].paper_id \in StoredPaperIds
  /\ \A k \in DOMAIN db.feedback : db.feedback[k].paper_id \in StoredPaperIds

\* what the code keeps: the question rows reference stored papers
C26_QuestionRowsReferenceStoredPapers ==
  \A k \in DOMAIN db.questions : db.questions[k].paper_id \in StoredPaperIds


(***************************************************************************)
(* Properties of the shared connection                                     *)
(***************************************************************************)

\* the question rows of the paper in the tables
QuestionRowsOf(tables, paper_id) ==
  SelectSeq(tables.questions, LAMBDA row : row.paper_id = paper_id)

\* C27: in every committed state each paper row is stored together with all
\* of its question rows: as many as the paper's total_questions.
C27_SavePaperAtomic ==
  \A p \in DOMAIN db.papers :
    Len(QuestionRowsOf(db, db.papers[p].id)) = db.papers[p].total_questions

\* a save_paper that raised in its loop left its paper row and its first
\* question row in the open transaction, and the commit of another request
\* has stored them
C27_PartialPaperCommitted ==
  \E t \in DOMAIN handlers :
    /\ handlers[t].pc = "raised"
    /\ \E p \in DOMAIN db.papers :
         /\ db.papers[p].id = handlers[t].paper_id
         /\ db.papers[p].total_questions = 2
         /\ Len(QuestionRowsOf(db, handlers[t].paper_id)) = 1

\* two requests interleaved: the commit of one has stored the paper row of
\* the other, whose save_paper has inserted no question row yet
C27_InterleavedCommit ==
  \E t \in DOMAIN handlers :
    /\ handlers[t].pc = "insert_question"
    /\ handlers[t].k = 1
    /\ \E p \in DOMAIN db.papers :
         /\ db.papers[p].id = handlers[t].paper_id
         /\ QuestionRowsOf(db, handlers[t].paper_id) = << >>

\* in the tables every paper row has as many question rows as its
\* total_questions and as the total_questions of its stored analysis, the
\* rows are numbered 1..total_questions, and the question count of
\* get_statistics is the sum of the papers' total_questions
TotalsAgree(tables) ==
  /\ \A p \in DOMAIN tables.papers :
       LET paper == tables.papers[p]
           rows == OrderByQuestionNumber(QuestionRowsOf(tables, paper.id))
       IN  /\ Len(rows) = paper.total_questions
           /\ json_loads(paper.analysis_data).total_questions = paper.total_questions
           /\ \A k \in DOMAIN rows : rows[k].question_number = k
  /\ get_statistics(tables).total_questions
       = SumSeq([p \in DOMAIN tables.papers |-> tables.papers[p].total_questions])

\* C30: for every stored paper the number of its question rows equals the
\* paper row's total_questions and the total_questions of its stored
\* analysis, its question_numbers are exactly 1..total_questions, and so
\* the total_questions of get_statistics is the sum of total_questions over
\* the stored papers.
C30_StoredTotalsAgree == TotalsAgree(db)

\* what the code keeps: the totals agree in what the connection sees while
\* no request is inside save_paper and none has raised there
C30_TotalsAgreeBetweenRequests ==
  (\A t \in DOMAIN handlers :
      handlers[t].pc \in {"idle", "insert_feedback", "commit", "returned"})
    => TotalsAgree(conn)

\* the request that raised in save_paper has returned, and the tables the
\* other requests read hold its paper with two questions announced and one
\* question row
C30_TotalsDisagreeAfterError ==
  /\ \E t \in DOMAIN handlers : handlers[t].pc = "raised"
  /\ \A t \in DOMAIN handlers : handlers[t].pc \in {"raised", "idle"}
  /\ Len(conn.papers) = 1
  /\ conn.papers[1].total_questions = 2
  /\ get_statistics(conn).total_questions = 1
====
